---- MODULE Spec2Model ----
(***************************************************************************)
(* A model of the wolf-asm instruction codec (asm/src/asm/layout.rs,       *)
(* asm/src/asm/instr.rs) and of the wolf-vm interpreter (vm/src/decode.rs, *)
(* vm/src/execute.rs, vm/src/machine.rs, vm/src/memory.rs).                *)
(*                                                                         *)
(* Machine integers are kept at their full width.  A value of a Rust       *)
(* integer type of n bytes is the sequence of its n bytes in little-endian *)
(* order (what to_le_bytes returns); u64 is 8 bytes, i128/u128 16 bytes.   *)
(* Mathematical naturals are little-endian byte sequences of any length,   *)
(* mathematical integers are records [neg, mag].                           *)
(***************************************************************************)
EXTENDS Integers, Sequences, FiniteSets, TLC

\* ------------------------------------------------------------------------
\* Naturals of arbitrary size (little-endian base-256 digit sequences)
\* ------------------------------------------------------------------------

Max(x, y) == IF x >= y THEN x ELSE y

RECURSIVE Zeros(_)
Zeros(n) == IF n <= 0 THEN <<>> ELSE <<0>> \o Zeros(n - 1)

RECURSIVE Ones(_)
Ones(n) == IF n <= 0 THEN <<>> ELSE <<255>> \o Ones(n - 1)

Pad(a, n) == IF Len(a) >= n THEN a ELSE a \o Zeros(n - Len(a))

\* a mod 2^(8n), as exactly n bytes
Trunc(a, n) == SubSeq(Pad(a, n), 1, n)

\* a div 2^(8n)
DropBytes(a, n) == IF Len(a) <= n THEN <<>> ELSE SubSeq(a, n + 1, Len(a))

RECURSIVE FromNat(_, _)
FromNat(n, len) == IF len = 0 THEN <<>> ELSE <<n % 256>> \o FromNat(n \div 256, len - 1)

IsZero(a) == \A i \in 1..Len(a) : a[i] = 0

RECURSIVE AddC(_, _, _)
AddC(a, b, c) ==
    IF a = <<>> THEN <<c>>
    ELSE LET s == a[1] + b[1] + c
         IN <<s % 256>> \o AddC(Tail(a), Tail(b), s \div 256)

\* a + b, exact (one byte longer than the longer operand)
NatAdd(a, b) == LET n == Max(Len(a), Len(b)) IN AddC(Pad(a, n), Pad(b, n), 0)

RECURSIVE SubB(_, _, _)
SubB(a, b, c) ==
    IF a = <<>> THEN <<c>>
    ELSE LET d == a[1] - b[1] - c
         IN <<(d + 256) % 256>> \o SubB(Tail(a), Tail(b), IF d < 0 THEN 1 ELSE 0)

\* (a - b) mod 2^(8n) in n bytes followed by the borrow, n the longer length
NatSubB(a, b) == LET n == Max(Len(a), Len(b)) IN SubB(Pad(a, n), Pad(b, n), 0)

RECURSIVE CmpTop(_, _, _)
CmpTop(a, b, i) ==
    IF i = 0 THEN 0
    ELSE IF a[i] < b[i] THEN -1
    ELSE IF a[i] > b[i] THEN 1
    ELSE CmpTop(a, b, i - 1)

\* -1, 0, 1 as a < b, a = b, a > b
NatCmp(a, b) == LET n == Max(Len(a), Len(b)) IN CmpTop(Pad(a, n), Pad(b, n), n)
NatLess(a, b) == NatCmp(a, b) < 0
NatLeq(a, b) == NatCmp(a, b) <= 0
NatEq(a, b) == NatCmp(a, b) = 0

\* a - b for a >= b, exact
NatSub(a, b) == LET n == Max(Len(a), Len(b)) IN SubSeq(NatSubB(a, b), 1, n)

RECURSIVE ConvSum(_, _, _, _)
\* the sum of a[i] * b[p + 1 - i] over the i from i on: column p of the
\* long multiplication of a and b
ConvSum(a, b, p, i) ==
    IF i > Len(a) \/ i > p THEN 0
    ELSE (IF p + 1 - i <= Len(b) THEN a[i] * b[p + 1 - i] ELSE 0) + ConvSum(a, b, p, i + 1)

RECURSIVE Columns(_, _, _, _)
\* the digits of the columns p .. Len(a) + Len(b) with carry c coming in
Columns(a, b, p, c) ==
    IF p > Len(a) + Len(b) THEN <<>>
    ELSE LET t == ConvSum(a, b, p, 1) + c
         IN <<t % 256>> \o Columns(a, b, p + 1, t \div 256)

\* a * b, exact, in Len(a) + Len(b) bytes
NatMul(a, b) == Columns(a, b, 1, 0)

\* 2^k
Pow2(k) == Zeros(k \div 8) \o <<2 ^ (k % 8)>>

\* ------------------------------------------------------------------------
\* Mathematical integers
\* ------------------------------------------------------------------------

MkInt(neg, mag) == [mag |-> mag, neg |-> neg /\ ~IsZero(mag)]

IntEq(x, y) == x.neg = y.neg /\ NatEq(x.mag, y.mag)

IntNeg(x) == MkInt(~x.neg, x.mag)

IntAdd(x, y) ==
    IF x.neg = y.neg THEN MkInt(x.neg, NatAdd(x.mag, y.mag))
    ELSE IF NatLeq(y.mag, x.mag) THEN MkInt(x.neg, NatSub(x.mag, y.mag))
    ELSE MkInt(y.neg, NatSub(y.mag, x.mag))

IntSub(x, y) == IntAdd(x, IntNeg(y))

IntMul(x, y) == MkInt(x.neg # y.neg, NatMul(x.mag, y.mag))

\* -2^(bits-1) <= x <= 2^(bits-1) - 1
InSignedRange(x, bits) ==
    IF x.neg THEN NatLeq(x.mag, Pow2(bits - 1)) ELSE NatLess(x.mag, Pow2(bits - 1))

\* 0 <= x <= 2^bits - 1
InUnsignedRange(x, bits) == ~x.neg /\ NatLess(x.mag, Pow2(bits))

\* the value of the n-byte pattern w read as an unsigned integer
Unsigned(w) == MkInt(FALSE, w)

\* the value of the n-byte pattern w read as a two's-complement integer
Signed(w) ==
    LET n == Len(w)
    IN IF w[n] >= 128 THEN MkInt(TRUE, NatSub(Pow2(8 * n), w)) ELSE MkInt(FALSE, w)

\* the n-byte two's-complement pattern of x (x mod 2^(8n))
Pattern(x, n) ==
    IF x.neg /\ ~IsZero(Trunc(x.mag, n))
    THEN Trunc(NatSub(Pow2(8 * n), Trunc(x.mag, n)), n)
    ELSE Trunc(x.mag, n)

\* ------------------------------------------------------------------------
\* Bit operations on u64 (8-byte patterns)
\* ------------------------------------------------------------------------

Bit(w, i) == (w[i \div 8 + 1] \div (2 ^ (i % 8))) % 2

FromBits(f) ==
    [j \in 1..8 |->
        f[8*(j-1)] + 2*f[8*(j-1)+1] + 4*f[8*(j-1)+2] + 8*f[8*(j-1)+3]
        + 16*f[8*(j-1)+4] + 32*f[8*(j-1)+5] + 64*f[8*(j-1)+6] + 128*f[8*(j-1)+7]]

\* the byte at position j (1 = least significant) of a u64, 0 outside it
ByteAt(w, j) == IF j >= 1 /\ j <= 8 THEN w[j] ELSE 0

\* w << k and w >> k on u64, 0 <= k < 64 (bits shifted out are dropped)
Shl(w, k) ==
    LET B(j) == ((ByteAt(w, j - (k \div 8)) * (2 ^ (k % 8))) % 256)
                + (ByteAt(w, j - (k \div 8) - 1) \div (2 ^ (8 - (k % 8))))
    IN <<B(1), B(2), B(3), B(4), B(5), B(6), B(7), B(8)>>
Shr(w, k) ==
    LET B(j) == (ByteAt(w, j + (k \div 8)) \div (2 ^ (k % 8)))
                + ((ByteAt(w, j + (k \div 8) + 1) * (2 ^ (8 - (k % 8)))) % 256)
    IN <<B(1), B(2), B(3), B(4), B(5), B(6), B(7), B(8)>>

\* |, & and ^ of two 4-bit values, tabulated, and of two bytes
NibbleBit(x, i) == (x \div (2 ^ i)) % 2
NibbleOr ==
    [x \in 0..15 |-> [y \in 0..15 |->
        LET b(i) == IF NibbleBit(x, i) = 1 \/ NibbleBit(y, i) = 1 THEN 1 ELSE 0
        IN b(0) + 2 * b(1) + 4 * b(2) + 8 * b(3)]]
NibbleAnd ==
    [x \in 0..15 |-> [y \in 0..15 |->
        LET b(i) == IF NibbleBit(x, i) = 1 /\ NibbleBit(y, i) = 1 THEN 1 ELSE 0
        IN b(0) + 2 * b(1) + 4 * b(2) + 8 * b(3)]]
NibbleXor ==
    [x \in 0..15 |-> [y \in 0..15 |->
        LET b(i) == IF NibbleBit(x, i) # NibbleBit(y, i) THEN 1 ELSE 0
        IN b(0) + 2 * b(1) + 4 * b(2) + 8 * b(3)]]
ByteOp(t, x, y) == (16 * t[x \div 16][y \div 16]) + t[x % 16][y % 16]

\* the bytes of two u64 combined pairwise by the tabulated operation t
WordOp(t, a, b) ==
    LET B(j) == ByteOp(t, a[j], b[j])
    IN <<B(1), B(2), B(3), B(4), B(5), B(6), B(7), B(8)>>

BitOr(a, b)  == WordOp(NibbleOr, a, b)
BitAnd(a, b) == WordOp(NibbleAnd, a, b)
BitXor(a, b) == WordOp(NibbleXor, a, b)

\* integer widening casts (`as`): signed sources sign-extend, unsigned zero-extend
SignExtend(w, n) ==
    IF w[Len(w)] >= 128 THEN w \o Ones(n - Len(w)) ELSE w \o Zeros(n - Len(w))
ZeroExtend(w, n) == w \o Zeros(n - Len(w))

\* small naturals as u64 / i128 patterns
U64(n) == FromNat(n, 8)
I128(x) == Pattern(x, 16)

\* ------------------------------------------------------------------------
\* asm/src/asm/layout.rs: bit patterns and layouts
\* ------------------------------------------------------------------------

REGISTERS == 64

\* Result and Option values: Ok(v)/Some(v), Err(e)/None; a panic is the
\* error "panic"
Ok(v) == [ok |-> TRUE, v |-> v]
Err(e) == [err |-> e, ok |-> FALSE]
Panic == "panic"
None == Err("None")

ImmBits == [S26 |-> 26, S30 |-> 30, S40 |-> 40, S46 |-> 46, S52 |-> 52]

\* BitPattern::size_bits of Opcode, Reg, Offset and Imm<S>
size_bits(ty) ==
    CASE ty = "Opcode" -> 12
      [] ty = "Reg"    -> 6
      [] ty = "Offset" -> 16
      [] OTHER         -> ImmBits[ty]

\* The value of a field as the u64 that write shifts into place, and whether
\* the debug assertion of write holds for it.
\*   Opcode(u16), Reg(u8): naturals; Offset(i16): 2-byte pattern;
\*   Imm<S>(i128): 16-byte pattern.
write_value(ty, v) ==
    CASE ty \in {"Opcode", "Reg"} -> U64(v)
      [] ty = "Offset"            -> ZeroExtend(v, 8)
      [] OTHER                    -> Trunc(v, 8)

write_assert(ty, v) ==
    CASE ty \in {"Opcode", "Reg"} -> v < 2 ^ size_bits(ty)
      [] ty = "Offset"            -> TRUE
      [] OTHER                    -> NatLess(v, Pow2(size_bits(ty)))

\* BitPattern::write: OR the value, shifted to msb_offset, into out
write(ty, v, msb_offset, out) ==
    BitOr(out, Shl(write_value(ty, v), REGISTERS - msb_offset - size_bits(ty)))

\* the masked field bits of read, aligned with the least-significant bit
read_bits(ty, value, msb_offset) ==
    LET bits == size_bits(ty)
        shifted == Shr(value, REGISTERS - msb_offset - bits)
        mask == Shr(Ones(8), REGISTERS - bits)
    IN BitAnd(shifted, mask)

\* (value ^ mask) - mask of Imm::read underflows u64 exactly when the sign
\* bit of the field is set; the subtraction is checked in a debug build.
read_underflows(ty, value, msb_offset) ==
    /\ ty \notin {"Opcode", "Reg", "Offset"}
    /\ LET mask == Shl(U64(1), size_bits(ty) - 1)
       IN NatLess(BitXor(read_bits(ty, value, msb_offset), mask), mask)

\* BitPattern::read (wrapping arithmetic)
read(ty, value, msb_offset) ==
    LET v == read_bits(ty, value, msb_offset)
    IN CASE ty = "Opcode" -> v[1] + 256 * v[2]
         [] ty = "Reg"    -> v[1]
         [] ty = "Offset" -> SubSeq(v, 1, 2)
         [] OTHER ->
              LET mask == Shl(U64(1), size_bits(ty) - 1)
                  ext == SubSeq(NatSubB(BitXor(v, mask), mask), 1, 8)
              IN SignExtend(ext, 16)

\* the layout! table: field types of L1..L11; opcode_offset of Ln is n-1
LayoutFields ==
    << <<"Reg", "Reg">>,
       <<"Reg", "S46">>,
       <<"S46", "Reg">>,
       <<"Reg", "Reg", "Offset">>,
       <<"Reg", "Offset", "S30">>,
       <<"S26", "S26">>,
       <<"Reg", "Reg", "Reg">>,
       <<"Reg", "Reg", "S40">>,
       <<"Reg">>,
       <<"S52">>,
       <<"Reg", "Offset">> >>

Layouts == 1..Len(LayoutFields)

\* the offset of Ln taken as n
opcode_offset_one_based(l) == l

opcode_offset(l) == l - 1

RECURSIVE SumBits(_)
SumBits(tys) == IF tys = <<>> THEN 0 ELSE size_bits(Head(tys)) + SumBits(Tail(tys))

\* used_arguments_bits counting the opcode as well
used_arguments_bits_with_opcode(l) == size_bits("Opcode") + SumBits(LayoutFields[l])

used_arguments_bits(l) == SumBits(LayoutFields[l])

\* msb_offset at which field i of a layout is written
FieldOffset(l, i) == size_bits("Opcode") + SumBits(SubSeq(LayoutFields[l], 1, i - 1))

RECURSIVE WriteFields(_, _, _, _)
WriteFields(l, fields, i, out) ==
    IF i > Len(LayoutFields[l]) THEN out
    ELSE WriteFields(l, fields, i + 1,
                     write(LayoutFields[l][i], fields[i], FieldOffset(l, i), out))

\* the debug assertions met by to_binary all hold
to_binary_asserts(layout, base_opcode) ==
    /\ write_assert("Opcode", base_opcode + opcode_offset(layout.l))
    /\ \A i \in 1..Len(LayoutFields[layout.l]) :
          write_assert(LayoutFields[layout.l][i], layout.f[i])
    /\ size_bits("Opcode") + used_arguments_bits(layout.l) <= REGISTERS

\* $layout_struct::to_binary, assertions compiled out
to_binary_release(layout, base_opcode) ==
    WriteFields(layout.l, layout.f, 1,
                write("Opcode", base_opcode + opcode_offset(layout.l), 0, Zeros(8)))

\* Layout::to_binary; a layout is [l |-> 1..11, f |-> field values]
to_binary(layout, base_opcode, debug) ==
    IF debug /\ ~to_binary_asserts(layout, base_opcode) THEN Err(Panic)
    ELSE Ok(to_binary_release(layout, base_opcode))

\* ------------------------------------------------------------------------
\* asm/src/asm/instr.rs: instruction kinds and base opcodes
\* vm/src/decode.rs: operand shapes of the kinds
\* ------------------------------------------------------------------------

Kinds ==
    << [name |-> "Nop",    opcode |-> 0,   shape |-> "Nullary"],
       [name |-> "Add",    opcode |-> 12,  shape |-> "DestSrc"],
       [name |-> "Sub",    opcode |-> 24,  shape |-> "DestSrc"],
       [name |-> "Mul",    opcode |-> 36,  shape |-> "DestSrc"],
       [name |-> "Mull",   opcode |-> 48,  shape |-> "DestDestSrc"],
       [name |-> "Mulu",   opcode |-> 60,  shape |-> "DestSrc"],
       [name |-> "Mullu",  opcode |-> 72,  shape |-> "DestDestSrc"],
       [name |-> "Div",    opcode |-> 84,  shape |-> "DestSrc"],
       [name |-> "Divr",   opcode |-> 96,  shape |-> "DestDestSrc"],
       [name |-> "Divu",   opcode |-> 108, shape |-> "DestSrc"],
       [name |-> "Divru",  opcode |-> 120, shape |-> "DestDestSrc"],
       [name |-> "Rem",    opcode |-> 132, shape |-> "DestSrc"],
       [name |-> "Remu",   opcode |-> 144, shape |-> "DestSrc"],
       [name |-> "And",    opcode |-> 156, shape |-> "DestSrc"],
       [name |-> "Or",     opcode |-> 168, shape |-> "DestSrc"],
       [name |-> "Xor",    opcode |-> 180, shape |-> "DestSrc"],
       [name |-> "Not",    opcode |-> 192, shape |-> "Dest"],
       [name |-> "Test",   opcode |-> 204, shape |-> "SrcSrc"],
       [name |-> "Cmp",    opcode |-> 216, shape |-> "SrcSrc"],
       [name |-> "Mov",    opcode |-> 228, shape |-> "DestSrc"],
       [name |-> "Load1",  opcode |-> 240, shape |-> "DestLoc"],
       [name |-> "Loadu1", opcode |-> 252, shape |-> "DestLoc"],
       [name |-> "Load2",  opcode |-> 264, shape |-> "DestLoc"],
       [name |-> "Loadu2", opcode |-> 276, shape |-> "DestLoc"],
       [name |-> "Load4",  opcode |-> 288, shape |-> "DestLoc"],
       [name |-> "Loadu4", opcode |-> 300, shape |-> "DestLoc"],
       [name |-> "Load8",  opcode |-> 312, shape |-> "DestLoc"],
       [name |-> "Loadu8", opcode |-> 324, shape |-> "DestLoc"],
       [name |-> "Store1", opcode |-> 336, shape |-> "LocSrc"],
       [name |-> "Store2", opcode |-> 348, shape |-> "LocSrc"],
       [name |-> "Store4", opcode |-> 360, shape |-> "LocSrc"],
       [name |-> "Store8", opcode |-> 372, shape |-> "LocSrc"],
       [name |-> "Push",   opcode |-> 384, shape |-> "Src"],
       [name |-> "Pop",    opcode |-> 396, shape |-> "Dest"],
       [name |-> "Jmp",    opcode |-> 408, shape |-> "Loc"],
       [name |-> "Je",     opcode |-> 420, shape |-> "Loc"],
       [name |-> "Jne",    opcode |-> 432, shape |-> "Loc"],
       [name |-> "Jg",     opcode |-> 444, shape |-> "Loc"],
       [name |-> "Jge",    opcode |-> 456, shape |-> "Loc"],
       [name |-> "Ja",     opcode |-> 468, shape |-> "Loc"],
       [name |-> "Jae",    opcode |-> 480, shape |-> "Loc"],
       [name |-> "Jl",     opcode |-> 492, shape |-> "Loc"],
       [name |-> "Jle",    opcode |-> 504, shape |-> "Loc"],
       [name |-> "Jb",     opcode |-> 516, shape |-> "Loc"],
       [name |-> "Jbe",    opcode |-> 528, shape |-> "Loc"],
       [name |-> "Jo",     opcode |-> 540, shape |-> "Loc"],
       [name |-> "Jno",    opcode |-> 552, shape |-> "Loc"],
       [name |-> "Jz",     opcode |-> 564, shape |-> "Loc"],
       [name |-> "Jnz",    opcode |-> 576, shape |-> "Loc"],
       [name |-> "Js",     opcode |-> 588, shape |-> "Loc"],
       [name |-> "Jns",    opcode |-> 600, shape |-> "Loc"],
       [name |-> "Call",   opcode |-> 612, shape |-> "Loc"],
       [name |-> "Ret",    opcode |-> 624, shape |-> "Nullary"] >>

KindIndex(name) == CHOOSE i \in 1..Len(Kinds) : Kinds[i].name = name
OPCODE(name) == Kinds[KindIndex(name)].opcode
Shape(name) == Kinds[KindIndex(name)].shape

\* from_opcode taking the insertion point itself for an opcode that is not a
\* base opcode, without the subtraction of one
from_opcode_insertion_point(opcode) ==
    LET found == {i \in 1..Len(Kinds) : Kinds[i].opcode = opcode}
        op_index == IF found # {} THEN CHOOSE i \in found : TRUE
                    ELSE IF Cardinality({i \in 1..Len(Kinds) : Kinds[i].opcode < opcode}) < Len(Kinds)
                         THEN Cardinality({i \in 1..Len(Kinds) : Kinds[i].opcode < opcode}) + 1
                         ELSE Len(Kinds)
    IN <<Kinds[op_index].name, (opcode - Kinds[op_index].opcode) % 2 ^ 16>>

\* InstrKind::from_opcode: binary_search_by_key over the opcode table gives
\* the index of an equal key, or else the insertion point, from which one is
\* subtracted; the result is the kind and opcode - instr_opcode.
from_opcode(opcode) ==
    LET found == {i \in 1..Len(Kinds) : Kinds[i].opcode = opcode}
        op_index == IF found # {} THEN CHOOSE i \in found : TRUE
                    ELSE Cardinality({i \in 1..Len(Kinds) : Kinds[i].opcode < opcode})
    IN <<Kinds[op_index].name, opcode - Kinds[op_index].opcode>>

\* Layout::from_binary: the layout selected by the opcode offset, its fields
\* read in declared order after the opcode; None for an offset of no layout.
from_binary_panics(instr, offset) ==
    /\ offset + 1 \in Layouts
    /\ \E i \in 1..Len(LayoutFields[offset + 1]) :
          read_underflows(LayoutFields[offset + 1][i], instr, FieldOffset(offset + 1, i))

from_binary(instr, offset) ==
    IF offset + 1 \notin Layouts THEN None
    ELSE LET l == offset + 1
         IN Ok([f |-> [i \in 1..Len(LayoutFields[l]) |->
                          read(LayoutFields[l][i], instr, FieldOffset(l, i))],
                l |-> l])

\* vm/src/operands.rs: Source, Destination, Location and their From impls
SrcReg(r) == [reg |-> r, t |-> "Register"]
SrcImm(imm) == [imm |-> imm, t |-> "Immediate"]
Dest(r) == [reg |-> r, t |-> "Register"]
\* offset is NoOffset (Option::None) or the 2-byte pattern of an i16
NoOffset == <<>>
LocReg(r, offset) == [offset |-> offset, reg |-> r, t |-> "Register"]
LocImm(imm) == [imm |-> imm, t |-> "Immediate"]

Unsupported == Err("UnsupportedInstructionLayout")

\* ArgumentsLayout::from_layout for each operand shape
from_layout(shape, layout) ==
    LET l == layout.l
        f == layout.f
    IN CASE shape = "Nullary" -> Ok(<<>>)
         [] shape = "DestSrc" ->
              CASE l = 1 -> Ok(<<Dest(f[1]), SrcReg(f[2])>>)
                [] l = 2 -> Ok(<<Dest(f[1]), SrcImm(f[2])>>)
                [] OTHER -> Unsupported
         [] shape = "SrcSrc" ->
              CASE l = 1 -> Ok(<<SrcReg(f[1]), SrcReg(f[2])>>)
                [] l = 2 -> Ok(<<SrcReg(f[1]), SrcImm(f[2])>>)
                [] l = 3 -> Ok(<<SrcImm(f[1]), SrcReg(f[2])>>)
                [] l = 6 -> Ok(<<SrcImm(f[1]), SrcImm(f[2])>>)
                [] OTHER -> Unsupported
         [] shape = "DestLoc" ->
              CASE l = 1 -> Ok(<<Dest(f[1]), LocReg(f[2], NoOffset)>>)
                [] l = 2 -> Ok(<<Dest(f[1]), LocImm(f[2])>>)
                [] l = 4 -> Ok(<<Dest(f[1]), LocReg(f[2], f[3])>>)
                [] OTHER -> Unsupported
         [] shape = "LocSrc" ->
              CASE l = 1 -> Ok(<<LocReg(f[1], NoOffset), SrcReg(f[2])>>)
                [] l = 2 -> Ok(<<LocReg(f[1], NoOffset), SrcImm(f[2])>>)
                [] l = 3 -> Ok(<<LocImm(f[1]), SrcReg(f[2])>>)
                [] l = 4 -> Ok(<<LocReg(f[1], f[3]), SrcReg(f[2])>>)
                [] l = 5 -> Ok(<<LocReg(f[1], f[2]), SrcImm(f[3])>>)
                [] l = 6 -> Ok(<<LocImm(f[1]), SrcImm(f[2])>>)
                [] OTHER -> Unsupported
         [] shape = "DestDestSrc" ->
              CASE l = 7 -> Ok(<<Dest(f[1]), Dest(f[2]), SrcReg(f[3])>>)
                [] l = 8 -> Ok(<<Dest(f[1]), Dest(f[2]), SrcImm(f[3])>>)
                [] OTHER -> Unsupported
         [] shape = "Src" ->
              CASE l = 9 -> Ok(<<SrcReg(f[1])>>)
                [] l = 10 -> Ok(<<SrcImm(f[1])>>)
                [] OTHER -> Unsupported
         [] shape = "Dest" ->
              CASE l = 9 -> Ok(<<Dest(f[1])>>)
                [] OTHER -> Unsupported
         [] shape = "Loc" ->
              CASE l = 9 -> Ok(<<LocReg(f[1], NoOffset)>>)
                [] l = 10 -> Ok(<<LocImm(f[1])>>)
                [] l = 11 -> Ok(<<LocReg(f[1], f[2])>>)
                [] OTHER -> Unsupported

\* Instr::decode.  The result is Ok of an instruction [kind, args], a
\* DecodeError or, in a debug build, the overflow panic of Imm::read.
decode(instr, debug) ==
    LET opcode == read("Opcode", instr, 0)
        ko == from_opcode(opcode)
        args == from_binary(instr, ko[2])
    IN IF ~args.ok THEN Err("InvalidOpcode")
       ELSE IF debug /\ from_binary_panics(instr, ko[2]) THEN Err(Panic)
       ELSE LET typed == from_layout(Shape(ko[1]), args.v)
            IN IF ~typed.ok THEN typed
               ELSE Ok([args |-> typed.v, kind |-> ko[1]])

\* ------------------------------------------------------------------------
\* Rust integer operations used by the interpreter
\* ------------------------------------------------------------------------

U64_MAX == Ones(8)

\* u64::checked_add, checked_sub, wrapping_add, wrapping_sub
checked_add(a, b) ==
    LET s == NatAdd(a, b) IN IF NatLeq(s, U64_MAX) THEN Ok(Trunc(s, 8)) ELSE None
checked_sub(a, b) ==
    IF NatLeq(b, a) THEN Ok(Trunc(NatSub(a, b), 8)) ELSE None
wrapping_add(a, b) == Trunc(NatAdd(a, b), 8)
wrapping_sub(a, b) == SubSeq(NatSubB(a, b), 1, 8)

\* i64::checked_add, checked_sub on the patterns of two i64
checked_add_i64(a, b) ==
    LET s == IntAdd(Signed(a), Signed(b))
    IN IF InSignedRange(s, 64) THEN Ok(Pattern(s, 8)) ELSE None
checked_sub_i64(a, b) ==
    LET s == IntSub(Signed(a), Signed(b))
    IN IF InSignedRange(s, 64) THEN Ok(Pattern(s, 8)) ELSE None

\* i128::overflowing_mul and u128::overflowing_mul: <<wrapped product, overflow>>
overflowing_mul_i128(a, b) ==
    LET p == IntMul(Signed(a), Signed(b))
    IN <<Pattern(p, 16), ~InSignedRange(p, 128)>>
overflowing_mul_u128(a, b) ==
    LET p == NatMul(a, b)
    IN <<Trunc(p, 16), ~NatLess(p, Pow2(128))>>

\* a + b and a - b on u64 with the overflow check of the build profile:
\* a panic in a debug build, wrapping in a release build
add_u64(a, b, debug) ==
    IF debug /\ ~checked_add(a, b).ok THEN Err(Panic) ELSE Ok(wrapping_add(a, b))
sub_u64(a, b, debug) ==
    IF debug /\ ~checked_sub(a, b).ok THEN Err(Panic) ELSE Ok(wrapping_sub(a, b))

RECURSIVE DivStep(_, _, _, _, _)
\* binary long division of the u64 a by b # 0: quotient bits q, remainder r
DivStep(a, b, i, q, r) ==
    IF i < 0 THEN <<FromBits(q), Trunc(r, 8)>>
    ELSE LET r2 == Trunc(NatAdd(NatAdd(r, r), <<Bit(a, i)>>), 9)
         IN IF NatLeq(b, r2)
            THEN DivStep(a, b, i - 1, [q EXCEPT ![i] = 1], Trunc(NatSub(r2, b), 9))
            ELSE DivStep(a, b, i - 1, q, r2)

\* u64::checked_div_euclid, checked_rem_euclid
checked_div_euclid(a, b) ==
    IF IsZero(b) THEN None ELSE Ok(DivStep(a, b, 63, [i \in 0..63 |-> 0], Zeros(9))[1])
checked_rem_euclid(a, b) ==
    IF IsZero(b) THEN None ELSE Ok(DivStep(a, b, 63, [i \in 0..63 |-> 0], Zeros(9))[2])

\* ------------------------------------------------------------------------
\* vm/src/memory.rs, registers.rs, flags.rs, io.rs
\* A machine is [program_counter, memory, registers, flags, io, stdin, stdout]
\* ------------------------------------------------------------------------

\* memory capacity in bytes (Memory::new(size_bytes))
MemSize == 64

Capacity == U64(MemSize)

OutOfBounds == Err("OutOfBounds")

\* `addr as usize` used as an index of the byte vector
Index(addr) == addr[1] + 256 * addr[2] + 65536 * addr[3]

\* Memory::get
get(memory, addr) ==
    IF NatLess(addr, Capacity) THEN Ok(memory[Index(addr)]) ELSE OutOfBounds

\* Memory::set
set(memory, addr, value) ==
    IF NatLess(addr, Capacity) THEN Ok([memory EXCEPT ![Index(addr)] = value])
    ELSE OutOfBounds

\* the range addr..addr+len handed to slice and slice_mut
range_end(addr, len, debug) == add_u64(addr, U64(len), debug)

RECURSIVE Bytes(_, _, _)
\* the n bytes of memory from index i on
Bytes(memory, i, n) == IF n = 0 THEN <<>> ELSE <<memory[i]>> \o Bytes(memory, i + 1, n - 1)

\* Memory::slice: the bytes of start..end, or OutOfBounds
slice(memory, start, end) ==
    IF NatLeq(start, end) /\ NatLeq(end, Capacity)
    THEN Ok(Bytes(memory, Index(start), Index(end) - Index(start)))
    ELSE OutOfBounds

\* Memory::slice_mut followed by copy_from_slice
slice_mut_copy(memory, start, end, bytes) ==
    IF NatLeq(start, end) /\ NatLeq(end, Capacity)
    THEN Ok([a \in DOMAIN memory |->
               IF Index(start) <= a /\ a < Index(end) THEN bytes[a - Index(start) + 1]
               ELSE memory[a]])
    ELSE OutOfBounds

\* Memory::read_u16, read_u32, read_u64 (n = 2, 4, 8)
read_un(memory, addr, n, debug) ==
    LET end == range_end(addr, n, debug)
    IN IF ~end.ok THEN end ELSE slice(memory, addr, end.v)

\* Memory::write_u16, write_u32, write_u64; value is the n-byte pattern
write_un(memory, addr, value, debug) ==
    LET end == range_end(addr, Len(value), debug)
    IN IF ~end.ok THEN end ELSE slice_mut_copy(memory, addr, end.v, value)

SP == REGISTERS - 1
FP == REGISTERS - 2

\* Registers::new
NewRegisters(stack_end_addr) ==
    [r \in 0..(REGISTERS - 1) |-> IF r \in {SP, FP} THEN stack_end_addr ELSE Zeros(8)]

\* Registers::load, Registers::store
load(m, reg) == m.registers[reg]
store(m, reg, value) == [m EXCEPT !.registers[reg] = value]

\* Flags::default
DefaultFlags ==
    [carry |-> "NoCarry", overflow |-> "NoOverflow", sign |-> "PositiveSign", zero |-> "Zero"]

NEWLINE == 10

\* Stdio::read_byte: <<machine, Some(byte) or None>>.  read_until appends the
\* next line of the input (through its newline) to io.line.
read_byte(m) ==
    LET refill == m.io.current >= Len(m.io.line)
        nl == {i \in 1..Len(m.stdin) : m.stdin[i] = NEWLINE}
        n == IF nl = {} THEN Len(m.stdin) ELSE CHOOSE i \in nl : \A j \in nl : i <= j
        m1 == IF refill
              THEN [m EXCEPT !.io = [current |-> 0, line |-> m.io.line \o SubSeq(m.stdin, 1, n)],
                             !.stdin = SubSeq(m.stdin, n + 1, Len(m.stdin))]
              ELSE m
    IN IF m1.io.current < Len(m1.io.line)
       THEN <<[m1 EXCEPT !.io.current = m1.io.current + 1], Ok(m1.io.line[m1.io.current + 1])>>
       ELSE <<m1, None>>

REPLACEMENT_CHARACTER == <<253, 255, 0, 0>>

\* char::from_u32 accepts the scalar values 0..0xD7FF and 0xE000..0x10FFFF
IsScalar(v) ==
    /\ NatLeq(v, <<255, 255, 16, 0>>)
    /\ ~(NatLeq(<<0, 216, 0, 0>>, v) /\ NatLeq(v, <<255, 223, 0, 0>>))

\* Stdio::write_bytes writing the value as it is, valid character or not
write_bytes_unchecked(m, value) ==
    [m EXCEPT !.stdout = Append(m.stdout, value)]

\* Stdio::write_bytes: the character written to stdout
write_bytes(m, value) ==
    [m EXCEPT !.stdout = Append(m.stdout, IF IsScalar(value) THEN value ELSE REPLACEMENT_CHARACTER)]

\* ------------------------------------------------------------------------
\* vm/src/operands.rs: operand values
\* ------------------------------------------------------------------------

\* Source::into_value and Destination::into_value as u64
source_value(m, source) ==
    IF source.t = "Register" THEN load(m, source.reg) ELSE Trunc(source.imm, 8)

\* Location::into_value as u64; `value + u64::reinterpret(offset)` is an
\* overflow-checked addition of the sign-extended offset
location_value(m, loc, debug) ==
    IF loc.t = "Immediate" THEN Ok(Trunc(loc.imm, 8))
    ELSE IF loc.offset = NoOffset THEN Ok(load(m, loc.reg))
    ELSE add_u64(load(m, loc.reg), SignExtend(loc.offset, 8), debug)

\* StoreDestination::store_dest of a value already reinterpreted as u64
store_dest(m, dest, value) == store(m, dest.reg, value)

\* ------------------------------------------------------------------------
\* vm/src/execute.rs: one handler per instruction kind.  A handler maps a
\* machine to an outcome [m, res]: the machine as the handler left it and
\* Ok or the ExecuteError (or panic) it ended with.
\* ------------------------------------------------------------------------

QUIT_ADDR == Ones(8)
STDOUT_ADDR == <<12, 0, 255, 255, 0, 0, 0, 0>>
STDIN_ADDR == <<4, 0, 255, 255, 0, 0, 0, 0>>
EOF_BYTE == 0

Done == Ok("()")
Outcome(m, res) == [m |-> m, res |-> res]

\* the zero and sign flags of a result
zero_flag(result) == IF IsZero(result) THEN "Zero" ELSE "NonZero"
sign_flag(result) ==
    IF ~IsZero(BitAnd(Shl(U64(1), 63), result)) THEN "NegativeSign" ELSE "PositiveSign"

ExecNop(m) == Outcome(m, Done)

\* ExecAdd with the carry flag taken from the signed sum
ExecAddSignedCarry(m, dest, source) ==
    LET lhs == load(m, dest.reg)
        rhs == source_value(m, source)
        carry == IF ~checked_add_i64(lhs, rhs).ok THEN "Carry" ELSE "NoCarry"
        overflow == IF ~checked_add_i64(lhs, rhs).ok THEN "Overflow" ELSE "NoOverflow"
        result == wrapping_add(lhs, rhs)
        m1 == store_dest(m, dest, result)
    IN Outcome([m1 EXCEPT !.flags = [carry |-> carry, overflow |-> overflow,
                                     sign |-> sign_flag(result), zero |-> zero_flag(result)]],
               Done)

ExecAdd(m, dest, source) ==
    LET lhs == load(m, dest.reg)
        rhs == source_value(m, source)
        carry == IF ~checked_add(lhs, rhs).ok THEN "Carry" ELSE "NoCarry"
        overflow == IF ~checked_add_i64(lhs, rhs).ok THEN "Overflow" ELSE "NoOverflow"
        result == wrapping_add(lhs, rhs)
        m1 == store_dest(m, dest, result)
    IN Outcome([m1 EXCEPT !.flags = [carry |-> carry, overflow |-> overflow,
                                     sign |-> sign_flag(result), zero |-> zero_flag(result)]],
               Done)

\* ExecSub with the overflow flag taken from the unsigned difference
ExecSubUnsignedOverflow(m, dest, source) ==
    LET lhs == load(m, dest.reg)
        rhs == source_value(m, source)
        carry == IF ~checked_sub(lhs, rhs).ok THEN "Carry" ELSE "NoCarry"
        overflow == IF ~checked_sub(lhs, rhs).ok THEN "Overflow" ELSE "NoOverflow"
        result == wrapping_sub(lhs, rhs)
        m1 == store_dest(m, dest, result)
    IN Outcome([m1 EXCEPT !.flags = [carry |-> carry, overflow |-> overflow,
                                     sign |-> sign_flag(result), zero |-> zero_flag(result)]],
               Done)

ExecSub(m, dest, source) ==
    LET lhs == load(m, dest.reg)
        rhs == source_value(m, source)
        carry == IF ~checked_sub(lhs, rhs).ok THEN "Carry" ELSE "NoCarry"
        overflow == IF ~checked_sub_i64(lhs, rhs).ok THEN "Overflow" ELSE "NoOverflow"
        result == wrapping_sub(lhs, rhs)
        m1 == store_dest(m, dest, result)
    IN Outcome([m1 EXCEPT !.flags = [carry |-> carry, overflow |-> overflow,
                                     sign |-> sign_flag(result), zero |-> zero_flag(result)]],
               Done)

ExecMul(m, dest, source) ==
    LET lhs == SignExtend(load(m, dest.reg), 16)
        rhs == SignExtend(source_value(m, source), 16)
        mul == overflowing_mul_i128(lhs, rhs)
        result == mul[1]
        overflow == mul[2] \/ result # SignExtend(Trunc(result, 8), 16)
        m1 == store_dest(m, dest, Trunc(result, 8))
    IN Outcome([m1 EXCEPT !.flags.carry = IF overflow THEN "Carry" ELSE "NoCarry",
                          !.flags.overflow = IF overflow THEN "Overflow" ELSE "NoOverflow"],
               Done)

ExecMull(m, dest_hi, dest, source) ==
    LET lhs == SignExtend(load(m, dest.reg), 16)
        rhs == SignExtend(source_value(m, source), 16)
        mul == overflowing_mul_i128(lhs, rhs)
        result == mul[1]
        overflow == mul[2]
        m1 == store_dest(m, dest, Trunc(result, 8))
        m2 == store_dest(m1, dest_hi, SubSeq(result, 9, 16))
    IN Outcome([m2 EXCEPT !.flags.carry = IF overflow THEN "Carry" ELSE "NoCarry",
                          !.flags.overflow = IF overflow THEN "Overflow" ELSE "NoOverflow"],
               Done)

\* ExecMulu setting the zero flag from the stored result
ExecMuluZeroFlag(m, dest, source) ==
    LET lhs == ZeroExtend(load(m, dest.reg), 16)
        rhs == ZeroExtend(source_value(m, source), 16)
        mul == overflowing_mul_u128(lhs, rhs)
        result == mul[1]
        overflow == mul[2] \/ result # ZeroExtend(Trunc(result, 8), 16)
        m1 == store_dest(m, dest, Trunc(result, 8))
    IN Outcome([m1 EXCEPT !.flags.carry = IF overflow THEN "Carry" ELSE "NoCarry",
                          !.flags.overflow = IF overflow THEN "Overflow" ELSE "NoOverflow",
                          !.flags.zero = zero_flag(Trunc(result, 8))],
               Done)

ExecMulu(m, dest, source) ==
    LET lhs == ZeroExtend(load(m, dest.reg), 16)
        rhs == ZeroExtend(source_value(m, source), 16)
        mul == overflowing_mul_u128(lhs, rhs)
        result == mul[1]
        overflow == mul[2] \/ result # ZeroExtend(Trunc(result, 8), 16)
        m1 == store_dest(m, dest, Trunc(result, 8))
    IN Outcome([m1 EXCEPT !.flags.carry = IF overflow THEN "Carry" ELSE "NoCarry",
                          !.flags.overflow = IF overflow THEN "Overflow" ELSE "NoOverflow"],
               Done)

ExecMullu(m, dest_hi, dest, source) ==
    LET lhs == ZeroExtend(load(m, dest.reg), 16)
        rhs == ZeroExtend(source_value(m, source), 16)
        mul == overflowing_mul_u128(lhs, rhs)
        result == mul[1]
        overflow == mul[2]
        m1 == store_dest(m, dest, Trunc(result, 8))
        m2 == store_dest(m1, dest_hi, SubSeq(result, 9, 16))
    IN Outcome([m2 EXCEPT !.flags.carry = IF overflow THEN "Carry" ELSE "NoCarry",
                          !.flags.overflow = IF overflow THEN "Overflow" ELSE "NoOverflow"],
               Done)

\* the handlers whose body is todo!()
ExecTodo(m) == Outcome(m, Err(Panic))

\* ExecDivru with the quotient and the remainder stored the other way round
ExecDivruSwapped(m, dest_rem, dest, source) ==
    LET lhs == load(m, dest.reg)
        rhs == source_value(m, source)
        quotient == checked_div_euclid(lhs, rhs)
        remainder == checked_rem_euclid(lhs, rhs)
    IN IF ~(quotient.ok /\ remainder.ok) THEN Outcome(m, Err("DivideByZero"))
       ELSE Outcome(store_dest(store_dest(m, dest, remainder.v), dest_rem, quotient.v), Done)

ExecDivru(m, dest_rem, dest, source) ==
    LET lhs == load(m, dest.reg)
        rhs == source_value(m, source)
        quotient == checked_div_euclid(lhs, rhs)
        remainder == checked_rem_euclid(lhs, rhs)
    IN IF ~(quotient.ok /\ remainder.ok) THEN Outcome(m, Err("DivideByZero"))
       ELSE Outcome(store_dest(store_dest(m, dest, quotient.v), dest_rem, remainder.v), Done)

\* ExecCmp writing the difference back to a register operand
ExecCmpWriteBack(m, source1, source2) ==
    LET lhs == source_value(m, source1)
        rhs == source_value(m, source2)
        carry == IF ~checked_sub(lhs, rhs).ok THEN "Carry" ELSE "NoCarry"
        overflow == IF ~checked_sub_i64(lhs, rhs).ok THEN "Overflow" ELSE "NoOverflow"
        result == wrapping_sub(lhs, rhs)
        m1 == IF source1.t = "Register" THEN store(m, source1.reg, result) ELSE m
    IN Outcome([m1 EXCEPT !.flags = [carry |-> carry, overflow |-> overflow,
                                     sign |-> sign_flag(result), zero |-> zero_flag(result)]],
               Done)

ExecCmp(m, source1, source2) ==
    LET lhs == source_value(m, source1)
        rhs == source_value(m, source2)
        carry == IF ~checked_sub(lhs, rhs).ok THEN "Carry" ELSE "NoCarry"
        overflow == IF ~checked_sub_i64(lhs, rhs).ok THEN "Overflow" ELSE "NoOverflow"
        result == wrapping_sub(lhs, rhs)
    IN Outcome([m EXCEPT !.flags = [carry |-> carry, overflow |-> overflow,
                                    sign |-> sign_flag(result), zero |-> zero_flag(result)]],
               Done)

ExecMov(m, dest, source) == Outcome(store_dest(m, dest, source_value(m, source)), Done)

\* ExecLoad widening every value with zeros
ExecLoadZeroExtend(m, dest, loc, n, signed, debug) ==
    LET addr == location_value(m, loc, debug)
        widen(value) == ZeroExtend(value, 8)
    IN IF ~addr.ok THEN Outcome(m, addr)
       ELSE IF addr.v = STDIN_ADDR
       THEN LET rb == read_byte(m)
                byte == IF rb[2].ok THEN rb[2].v ELSE EOF_BYTE
            IN Outcome(store_dest(rb[1], dest, widen(ZeroExtend(<<byte>>, n))), Done)
       ELSE LET value == IF n = 1
                         THEN (LET b == get(m.memory, addr.v)
                               IN IF b.ok THEN Ok(<<b.v>>) ELSE b)
                         ELSE read_un(m.memory, addr.v, n, debug)
            IN IF ~value.ok THEN Outcome(m, value)
               ELSE Outcome(store_dest(m, dest, widen(value.v)), Done)

\* Load1, Loadu1, Load2, Loadu2, Load4, Loadu4, Load8, Loadu8: the handlers
\* differ in the width n and in whether the value is reinterpreted as signed
\* before store_dest widens it
ExecLoad(m, dest, loc, n, signed, debug) ==
    LET addr == location_value(m, loc, debug)
        widen(value) == IF signed THEN SignExtend(value, 8) ELSE ZeroExtend(value, 8)
    IN IF ~addr.ok THEN Outcome(m, addr)
       ELSE IF addr.v = STDIN_ADDR
       THEN LET rb == read_byte(m)
                byte == IF rb[2].ok THEN rb[2].v ELSE EOF_BYTE
            IN Outcome(store_dest(rb[1], dest, widen(ZeroExtend(<<byte>>, n))), Done)
       ELSE LET value == IF n = 1
                         THEN (LET b == get(m.memory, addr.v)
                               IN IF b.ok THEN Ok(<<b.v>>) ELSE b)
                         ELSE read_un(m.memory, addr.v, n, debug)
            IN IF ~value.ok THEN Outcome(m, value)
               ELSE Outcome(store_dest(m, dest, widen(value.v)), Done)

\* ExecStore writing the high n bytes of the source
ExecStoreHighBytes(m, loc, source, n, debug) ==
    LET addr == location_value(m, loc, debug)
        value == SubSeq(source_value(m, source), 9 - n, 8)
    IN IF ~addr.ok THEN Outcome(m, addr)
       ELSE IF addr.v = STDOUT_ADDR
       THEN Outcome(write_bytes(m, Trunc(value, 4)), Done)
       ELSE LET mem == IF n = 1 THEN set(m.memory, addr.v, value[1])
                       ELSE write_un(m.memory, addr.v, value, debug)
            IN IF ~mem.ok THEN Outcome(m, mem)
               ELSE Outcome([m EXCEPT !.memory = mem.v], Done)

\* Store1, Store2, Store4, Store8: the handlers differ in the width n
\* (u32::reinterpret of the value: zero-extended, or its low 4 bytes)
ExecStore(m, loc, source, n, debug) ==
    LET addr == location_value(m, loc, debug)
        value == Trunc(source_value(m, source), n)
    IN IF ~addr.ok THEN Outcome(m, addr)
       ELSE IF addr.v = STDOUT_ADDR
       THEN Outcome(write_bytes(m, Trunc(value, 4)), Done)
       ELSE LET mem == IF n = 1 THEN set(m.memory, addr.v, value[1])
                       ELSE write_un(m.memory, addr.v, value, debug)
            IN IF ~mem.ok THEN Outcome(m, mem)
               ELSE Outcome([m EXCEPT !.memory = mem.v], Done)

ExecPush(m, source, debug) ==
    LET sp == load(m, SP)
        stack_top == sub_u64(sp, U64(8), debug)
    IN IF ~stack_top.ok THEN Outcome(m, stack_top)
       ELSE LET m1 == store(m, SP, stack_top.v)
                value == source_value(m1, source)
                mem == write_un(m1.memory, stack_top.v, value, debug)
            IN IF ~mem.ok THEN Outcome(m1, mem)
               ELSE Outcome([m1 EXCEPT !.memory = mem.v], Done)

ExecPop(m, dest, debug) ==
    LET stack_top == load(m, SP)
        value == read_un(m.memory, stack_top, 8, debug)
    IN IF ~value.ok THEN Outcome(m, value)
       ELSE LET m1 == store_dest(m, dest, value.v)
                sp == add_u64(stack_top, U64(8), debug)
            IN IF ~sp.ok THEN Outcome(m1, sp)
               ELSE Outcome(store(m1, SP, sp.v), Done)

\* the flag conditions with Jg taken on SF = OF alone
jump_cond_jg_ignores_zero(kind, flags) ==
    CASE kind \in {"Je", "Jz"}   -> flags.zero = "Zero"
      [] kind \in {"Jne", "Jnz"} -> flags.zero = "NonZero"
      [] kind = "Jg"  -> \/ (flags.sign = "NegativeSign" /\ flags.overflow = "Overflow")
                         \/ (flags.sign = "PositiveSign" /\ flags.overflow = "NoOverflow")
      [] kind = "Jge" -> \/ flags.zero = "Zero"
                         \/ (flags.sign = "NegativeSign" /\ flags.overflow = "Overflow")
                         \/ (flags.sign = "PositiveSign" /\ flags.overflow = "NoOverflow")
      [] kind = "Ja"  -> flags.carry = "NoCarry" /\ flags.zero = "NonZero"
      [] kind = "Jae" -> flags.carry = "NoCarry" \/ flags.zero = "Zero"
      [] kind = "Jl"  -> \/ (flags.sign = "NegativeSign" /\ flags.overflow = "NoOverflow")
                         \/ (flags.sign = "PositiveSign" /\ flags.overflow = "Overflow")
      [] kind = "Jle" -> \/ flags.zero = "Zero"
                         \/ (flags.sign = "NegativeSign" /\ flags.overflow = "NoOverflow")
                         \/ (flags.sign = "PositiveSign" /\ flags.overflow = "Overflow")
      [] kind = "Jb"  -> flags.carry = "Carry"
      [] kind = "Jbe" -> flags.carry = "Carry" \/ flags.zero = "Zero"
      [] kind = "Jo"  -> flags.overflow = "Overflow"
      [] kind = "Jno" -> flags.overflow = "NoOverflow"
      [] kind = "Jmp" -> TRUE

\* the flag conditions of Je .. Jnz
jump_cond(kind, flags) ==
    CASE kind \in {"Je", "Jz"}   -> flags.zero = "Zero"
      [] kind \in {"Jne", "Jnz"} -> flags.zero = "NonZero"
      [] kind = "Jg"  -> \/ (flags.sign = "NegativeSign" /\ flags.overflow = "Overflow"
                             /\ flags.zero = "NonZero")
                         \/ (flags.sign = "PositiveSign" /\ flags.overflow = "NoOverflow"
                             /\ flags.zero = "NonZero")
      [] kind = "Jge" -> \/ flags.zero = "Zero"
                         \/ (flags.sign = "NegativeSign" /\ flags.overflow = "Overflow")
                         \/ (flags.sign = "PositiveSign" /\ flags.overflow = "NoOverflow")
      [] kind = "Ja"  -> flags.carry = "NoCarry" /\ flags.zero = "NonZero"
      [] kind = "Jae" -> flags.carry = "NoCarry" \/ flags.zero = "Zero"
      [] kind = "Jl"  -> \/ (flags.sign = "NegativeSign" /\ flags.overflow = "NoOverflow")
                         \/ (flags.sign = "PositiveSign" /\ flags.overflow = "Overflow")
      [] kind = "Jle" -> \/ flags.zero = "Zero"
                         \/ (flags.sign = "NegativeSign" /\ flags.overflow = "NoOverflow")
                         \/ (flags.sign = "PositiveSign" /\ flags.overflow = "Overflow")
      [] kind = "Jb"  -> flags.carry = "Carry"
      [] kind = "Jbe" -> flags.carry = "Carry" \/ flags.zero = "Zero"
      [] kind = "Jo"  -> flags.overflow = "Overflow"
      [] kind = "Jno" -> flags.overflow = "NoOverflow"
      [] kind = "Jmp" -> TRUE

\* Jmp and the conditional jumps Je .. Jnz
ExecJump(m, kind, loc, debug) ==
    LET addr == location_value(m, loc, debug)
    IN IF ~addr.ok THEN Outcome(m, addr)
       ELSE IF jump_cond(kind, m.flags)
       THEN Outcome([m EXCEPT !.program_counter = addr.v], Done)
       ELSE Outcome(m, Done)

ExecCall(m, loc, debug) ==
    LET sp == load(m, SP)
        stack_top == sub_u64(sp, U64(8), debug)
    IN IF ~stack_top.ok THEN Outcome(m, stack_top)
       ELSE LET m1 == store(m, SP, stack_top.v)
                mem == write_un(m1.memory, stack_top.v, m1.program_counter, debug)
            IN IF ~mem.ok THEN Outcome(m1, mem)
               ELSE LET m2 == [m1 EXCEPT !.memory = mem.v]
                        addr == location_value(m2, loc, debug)
                    IN IF ~addr.ok THEN Outcome(m2, addr)
                       ELSE Outcome([m2 EXCEPT !.program_counter = addr.v], Done)

ExecRet(m, debug) ==
    LET stack_top == load(m, SP)
        value == read_un(m.memory, stack_top, 8, debug)
    IN IF ~value.ok THEN Outcome(m, value)
       ELSE LET m1 == [m EXCEPT !.program_counter = value.v]
                sp == add_u64(stack_top, U64(8), debug)
            IN IF ~sp.ok THEN Outcome(m1, sp)
               ELSE Outcome(store(m1, SP, sp.v), Done)

LoadWidth ==
    [Load1 |-> 1, Load2 |-> 2, Load4 |-> 4, Load8 |-> 8,
     Loadu1 |-> 1, Loadu2 |-> 2, Loadu4 |-> 4, Loadu8 |-> 8]
LoadSigned == {"Load1", "Load2", "Load4"}
StoreWidth == [Store1 |-> 1, Store2 |-> 2, Store4 |-> 4, Store8 |-> 8]
JumpKinds == {"Jmp", "Je", "Jne", "Jg", "Jge", "Ja", "Jae", "Jl", "Jle",
              "Jb", "Jbe", "Jo", "Jno", "Jz", "Jnz"}
TodoKinds == {"Div", "Divr", "Divu", "Rem", "Remu", "And", "Or", "Xor", "Not",
              "Test", "Js", "Jns"}

\* impl Execute for Instr: dispatch on the instruction kind
execute(m, instr, debug) ==
    LET k == instr.kind
        a == instr.args
    IN CASE k = "Nop"   -> ExecNop(m)
         [] k = "Add"   -> ExecAdd(m, a[1], a[2])
         [] k = "Sub"   -> ExecSub(m, a[1], a[2])
         [] k = "Mul"   -> ExecMul(m, a[1], a[2])
         [] k = "Mull"  -> ExecMull(m, a[1], a[2], a[3])
         [] k = "Mulu"  -> ExecMulu(m, a[1], a[2])
         [] k = "Mullu" -> ExecMullu(m, a[1], a[2], a[3])
         [] k = "Divru" -> ExecDivru(m, a[1], a[2], a[3])
         [] k = "Cmp"   -> ExecCmp(m, a[1], a[2])
         [] k = "Mov"   -> ExecMov(m, a[1], a[2])
         [] k \in DOMAIN LoadWidth  -> ExecLoad(m, a[1], a[2], LoadWidth[k], k \in LoadSigned, debug)
         [] k \in DOMAIN StoreWidth -> ExecStore(m, a[1], a[2], StoreWidth[k], debug)
         [] k = "Push"  -> ExecPush(m, a[1], debug)
         [] k = "Pop"   -> ExecPop(m, a[1], debug)
         [] k \in JumpKinds -> ExecJump(m, k, a[1], debug)
         [] k = "Call"  -> ExecCall(m, a[1], debug)
         [] k = "Ret"   -> ExecRet(m, debug)
         [] k \in TodoKinds -> ExecTodo(m)

\* ------------------------------------------------------------------------
\* vm/src/machine.rs: Machine::step
\* ------------------------------------------------------------------------

\* the first steps of Machine::step: read_u64 at the program counter, then
\* Instr::decode
fetch(m, debug) ==
    LET word == read_un(m.memory, m.program_counter, 8, debug)
    IN IF ~word.ok THEN word ELSE decode(word.v, debug)

\* the ProgramStatus Machine::step returns for the program counter it ends with
ProgramStatus(pc) == IF pc = QUIT_ADDR THEN "Quit" ELSE "Continue"

\* the end of Machine::step: the error of the handler, or the ProgramStatus
step_status(out) ==
    IF ~out.res.ok THEN out
    ELSE Outcome(out.m, Ok(ProgramStatus(out.m.program_counter)))

\* the handler's outcome with the program counter advanced afterwards
advance_after(out, debug) ==
    LET pc == add_u64(out.m.program_counter, U64(8), debug)
    IN IF ~out.res.ok THEN out
       ELSE IF ~pc.ok THEN Outcome(out.m, pc)
       ELSE Outcome([out.m EXCEPT !.program_counter = pc.v], Ok(ProgramStatus(pc.v)))

\* Machine::step after the fetch, executing the handler before it advances
\* the program counter
step_execute_first(m, instr, debug) ==
    IF ~instr.ok THEN Outcome(m, instr)
    ELSE advance_after(execute(m, instr.v, debug), debug)

\* Machine::step after the fetch: the program counter is advanced by
\* size_bytes() = 8, then the handler runs.  The handler is the one Execute
\* for Instr dispatches to, Instr being what Instr::decode returns.
step_execute(m, instr, debug) ==
    LET pc == add_u64(m.program_counter, U64(8), debug)
    IN IF ~instr.ok THEN Outcome(m, instr)
       ELSE IF ~pc.ok THEN Outcome(m, pc)
       ELSE step_status(execute([m EXCEPT !.program_counter = pc.v], instr.v, debug))

\* Machine::step: outcome [m, res] with res Ok("Quit"), Ok("Continue") or
\* the ExecutionError (or panic)
step(m, debug) == step_execute(m, fetch(m, debug), debug)

\* Machine::push_immediate: its body is todo!()
push_immediate(m, imm) == Outcome(m, Err(Panic))

\* Machine::push_quit_addr: push_immediate(QUIT_ADDR as i128)
push_quit_addr(m) == push_immediate(m, ZeroExtend(QUIT_ADDR, 16))

\* ------------------------------------------------------------------------
\* State
\* ------------------------------------------------------------------------

VARIABLES
    build,            \* the build profile: "debug" (checked arithmetic, debug
                      \* assertions) or "release"
    program_counter,  \* Machine.program_counter
    memory,           \* Machine.memory: the byte at each address
    registers,        \* Machine.registers
    flags,            \* Machine.flags
    io,               \* Machine.io: [line, current]
    stdin,            \* the input not yet read from the process's stdin
    stdout,           \* the characters written to the process's stdout
    hist,             \* the last two operations performed, most recent
                      \* first: [call, instr, n, pre, res], the n-th
                      \* operation, run on machine pre; call holds the call
                      \* a ret returned from
    calls,            \* the calls whose return address is still on the
                      \* stack, innermost first: [at, sp, slot, word], a call
                      \* fetched at `at` with SP = sp that pushed word at slot
    enc               \* the encoder's input and, once encoded, its word and
                      \* the decoding of the word

vars == <<build, program_counter, memory, registers, flags, io, stdin, stdout,
          hist, calls, enc>>

machine_vars == <<program_counter, memory, registers, flags, io, stdin, stdout>>

Debug == build = "debug"

\* the machine of the current state
Machine ==
    [flags |-> flags, io |-> io, memory |-> memory,
     program_counter |-> program_counter, registers |-> registers, stdin |-> stdin, stdout |-> stdout]

\* the next state holds machine m
Install(m) ==
    /\ program_counter' = m.program_counter
    /\ memory' = m.memory
    /\ registers' = m.registers
    /\ flags' = m.flags
    /\ io' = m.io
    /\ stdin' = m.stdin
    /\ stdout' = m.stdout

\* the machine the tests of vm/tests/test_execute.rs construct
NewMachine ==
    [flags |-> DefaultFlags,
     io |-> [current |-> 0, line |-> <<>>],
     memory |-> [a \in 0..(MemSize - 1) |-> 0],
     program_counter |-> Zeros(8),
     registers |-> NewRegisters(Capacity),
     stdin |-> <<>>,
     stdout |-> <<>>]

Builds == {"debug", "release"}

\* ------------------------------------------------------------------------
\* The codec: encode a layout and decode the word
\* ------------------------------------------------------------------------

\* two's-complement patterns of the extreme and small values of a field
MinPattern(bits, n) == Pattern(MkInt(TRUE, Pow2(bits - 1)), n)
MaxPattern(bits, n) == Pattern(MkInt(FALSE, NatSub(Pow2(bits - 1), <<1>>)), n)

RegValues == {0, 1, REGISTERS - 1}

FieldValues(ty) ==
    CASE ty = "Reg"    -> RegValues
      [] ty = "Offset" -> {MinPattern(16, 2), Ones(2), Zeros(2), MaxPattern(16, 2)}
      [] OTHER         -> {MinPattern(ImmBits[ty], 16), Ones(16), Zeros(16),
                           MaxPattern(ImmBits[ty], 16)}

\* every tuple of field values of layout l
LayoutValues(l) ==
    LET tys == LayoutFields[l]
    IN CASE Len(tys) = 1 -> {<<a>> : a \in FieldValues(tys[1])}
         [] Len(tys) = 2 -> {<<a, b>> : a \in FieldValues(tys[1]), b \in FieldValues(tys[2])}
         [] Len(tys) = 3 -> {<<a, b, c>> : a \in FieldValues(tys[1]), b \in FieldValues(tys[2]),
                                           c \in FieldValues(tys[3])}

InitMachine(m) ==
    /\ program_counter = m.program_counter
    /\ memory = m.memory
    /\ registers = m.registers
    /\ flags = m.flags
    /\ io = m.io
    /\ stdin = m.stdin
    /\ stdout = m.stdout

\* The encoder's inputs: an instruction kind and a layout with its field
\* values, as the assembler hands them to to_binary.
InitEnc ==
    /\ build \in Builds
    /\ InitMachine(NewMachine)
    /\ hist = <<>>
    /\ calls = <<>>
    /\ \E k \in 1..Len(Kinds), l \in Layouts : \E f \in LayoutValues(l) :
          enc = << [kind |-> Kinds[k].name, layout |-> [f |-> f, l |-> l], stage |-> "input"] >>

\* the word of to_binary taken through the first steps of Instr::decode:
\* Opcode::read, InstrKind::from_opcode and Layout::from_binary
Decoded(word, debug) ==
    LET ko == from_opcode(read("Opcode", word, 0))
    IN [args |-> IF debug /\ from_binary_panics(word, ko[2]) THEN Err(Panic)
                 ELSE from_binary(word, ko[2]),
        instr |-> decode(word, debug),
        kind |-> ko[1],
        offset |-> ko[2]]

\* InstrLayout::to_binary of the input, then the decoding of its word
Encode ==
    /\ Len(enc) = 1
    /\ enc[1].stage = "input"
    /\ \E word \in {to_binary(enc[1].layout, OPCODE(enc[1].kind), Debug)} :
       \E dec \in {IF word.ok THEN Ok(Decoded(word.v, Debug)) ELSE Err(Panic)} :
          enc' = << [dec |-> dec, kind |-> enc[1].kind, layout |-> enc[1].layout,
                     stage |-> "encoded", word |-> word] >>
    /\ UNCHANGED <<build, machine_vars, hist, calls>>

NextEnc == Encode

SpecEnc == InitEnc /\ [][NextEnc]_vars

\* an encoding has been made and decoded
Encoded == Len(enc) = 1 /\ enc[1].stage = "encoded"

\* C1: decoding the word of to_binary yields the kind, the layout and the
\* field values that were encoded, for every layout, every kind and every
\* tuple of valid field values, negative immediates and offsets included.
C1_RoundTrip ==
    Encoded =>
        /\ enc[1].word.ok
        /\ enc[1].dec.ok
        /\ enc[1].dec.v.kind = enc[1].kind
        /\ enc[1].dec.v.offset = opcode_offset(enc[1].layout.l)
        /\ enc[1].dec.v.args.ok
        /\ enc[1].dec.v.args.v = enc[1].layout

\* ------------------------------------------------------------------------
\* Executing instructions on a machine (Execute::execute, as the tests of
\* vm/tests/test_execute.rs call it)
\* ------------------------------------------------------------------------

\* the number of operations performed so far
Ops == IF hist = <<>> THEN 0 ELSE hist[1].n

\* no operation has failed: an error or a panic ends the run
Running == IF hist = <<>> THEN TRUE ELSE hist[1].res.ok

\* the machine takes the outcome of an operation
Apply(instr, out, call) ==
    /\ Install(out.m)
    /\ hist' = << [call |-> call, instr |-> instr, n |-> Ops + 1, pre |-> Machine,
                   res |-> out.res] >>
                \o SubSeq(hist, 1, IF hist = <<>> THEN 0 ELSE 1)
    /\ UNCHANGED <<build, enc>>

\* instr.execute(&mut vm)
Exec(kind, args) ==
    \E instr \in {[args |-> args, kind |-> kind]} :
    \E out \in {execute(Machine, instr, Debug)} :
        Apply(instr, out, <<>>) /\ UNCHANGED calls

\* instr.execute(&mut vm) as one of at most max operations of a run
Run(max, kind, args) == Running /\ Ops < max /\ Exec(kind, args)

\* the last operation was an instruction of the given kind and it returned Ok
Did(kind) == IF hist = <<>> THEN FALSE ELSE hist[1].instr.kind = kind /\ hist[1].res.ok

\* ------------------------------------------------------------------------
\* Arithmetic: add, sub, cmp, mul, mulu on two registers
\* ------------------------------------------------------------------------

MaxAluOps == 1

I64_MAX == Ones(7) \o <<127>>
I64_MIN == Zeros(7) \o <<128>>

AluValues == {U64(0), U64(1), I64_MAX, I64_MIN, U64_MAX}

\* flags as an earlier instruction may have left them
AluFlags ==
    {DefaultFlags,
     [carry |-> "NoCarry", overflow |-> "Overflow", sign |-> "NegativeSign", zero |-> "NonZero"]}

AluDests == {Dest(0)}
AluSources == {SrcReg(0), SrcReg(1), SrcImm(I128(MkInt(FALSE, <<2>>)))}

InitAlu ==
    /\ build \in Builds
    /\ \E u \in AluValues, v \in AluValues, f \in AluFlags :
          InitMachine([NewMachine EXCEPT !.registers[0] = u, !.registers[1] = v, !.flags = f])
    /\ hist = <<>>
    /\ calls = <<>>
    /\ enc = <<>>

AluAdd(dest, source) == Run(MaxAluOps, "Add", <<dest, source>>)
AluSub(dest, source) == Run(MaxAluOps, "Sub", <<dest, source>>)
AluCmp(source1, source2) == Run(MaxAluOps, "Cmp", <<source1, source2>>)
AluMul(dest, source) == Run(MaxAluOps, "Mul", <<dest, source>>)
AluMulu(dest, source) == Run(MaxAluOps, "Mulu", <<dest, source>>)

NextAlu ==
    \/ \E dest \in AluDests, source \in AluSources : AluAdd(dest, source)
    \/ \E dest \in AluDests, source \in AluSources : AluSub(dest, source)
    \/ \E source1 \in AluSources, source2 \in AluSources : AluCmp(source1, source2)
    \/ \E dest \in AluDests, source \in AluSources : AluMul(dest, source)
    \/ \E dest \in AluDests, source \in AluSources : AluMulu(dest, source)

SpecAlu == InitAlu /\ [][NextAlu]_vars

\* the operand values of the last operation, read from the machine before it
Lhs == source_value(hist[1].pre, hist[1].instr.args[1])
Rhs == source_value(hist[1].pre, hist[1].instr.args[2])
\* the register the last operation names as its first operand, as it is now
Result == registers[hist[1].instr.args[1].reg]

\* (u - v) mod 2^64
DiffMod64(u, v) == IF NatLeq(v, u) THEN Trunc(NatSub(u, v), 8)
                   ELSE Trunc(NatSub(NatAdd(u, Pow2(64)), v), 8)

\* the flags are those of a sum or difference with the given result: carry
\* and overflow as stated, zero and sign from the result
FlagsAre(carry, overflow, result) ==
    /\ flags.carry = IF carry THEN "Carry" ELSE "NoCarry"
    /\ flags.overflow = IF overflow THEN "Overflow" ELSE "NoOverflow"
    /\ flags.zero = IF IsZero(result) THEN "Zero" ELSE "NonZero"
    /\ flags.sign = IF result[8] >= 128 THEN "NegativeSign" ELSE "PositiveSign"

\* everything but the flags is as it was before the last operation
OnlyFlagsChanged ==
    /\ registers = hist[1].pre.registers
    /\ memory = hist[1].pre.memory
    /\ program_counter = hist[1].pre.program_counter
    /\ stdout = hist[1].pre.stdout

\* C2: add stores (u + v) mod 2^64 in dest; CF is set iff u + v >= 2^64, OF
\* iff the sum of u and v as signed values is outside the i64 range, ZF iff
\* the result is 0 and SF iff bit 63 of the result is 1.
C2_AddFlags ==
    Did("Add") =>
        /\ Result = Trunc(NatAdd(Lhs, Rhs), 8)
        /\ FlagsAre(NatLeq(Pow2(64), NatAdd(Lhs, Rhs)),
                    ~InSignedRange(IntAdd(Signed(Lhs), Signed(Rhs)), 64),
                    Result)

\* an add that carried out of bit 63, overflowed the signed range and left 0
C2_Witness ==
    /\ Did("Add")
    /\ Lhs = I64_MIN
    /\ Rhs = I64_MIN
    /\ flags.carry = "Carry"
    /\ flags.overflow = "Overflow"
    /\ flags.zero = "Zero"

\* C3: sub stores (u - v) mod 2^64 in dest; CF is set iff u < v as unsigned
\* values, OF iff the difference of u and v as signed values is outside the
\* i64 range, ZF iff the result is 0 and SF iff bit 63 of the result is 1.
C3_SubFlags ==
    Did("Sub") =>
        /\ Result = DiffMod64(Lhs, Rhs)
        /\ FlagsAre(NatLess(Lhs, Rhs),
                    ~InSignedRange(IntSub(Signed(Lhs), Signed(Rhs)), 64),
                    Result)

\* a sub that borrowed without leaving the signed range: 0 - 1
C3_Witness ==
    /\ Did("Sub")
    /\ Lhs = U64(0)
    /\ Rhs = U64(1)
    /\ flags.carry = "Carry"
    /\ flags.overflow = "NoOverflow"
    /\ flags.sign = "NegativeSign"
    /\ Result = U64_MAX

\* C4: cmp sets the four flags to the values sub sets for the same operand
\* values and writes no register and no memory byte.
C4_CmpLikeSub ==
    Did("Cmp") =>
        /\ FlagsAre(NatLess(Lhs, Rhs),
                    ~InSignedRange(IntSub(Signed(Lhs), Signed(Rhs)), 64),
                    DiffMod64(Lhs, Rhs))
        /\ hist[1].instr.args[1].t = "Register" =>
              flags = ExecSub(hist[1].pre, Dest(hist[1].instr.args[1].reg),
                              hist[1].instr.args[2]).m.flags
        /\ OnlyFlagsChanged

\* a cmp of a register with a larger register: the flags change, the
\* register used as source1 keeps its value
C4_Witness ==
    /\ Did("Cmp")
    /\ hist[1].instr.args[1] = SrcReg(0)
    /\ hist[1].instr.args[2] = SrcReg(1)
    /\ flags.carry = "Carry"
    /\ flags # hist[1].pre.flags
    /\ registers[0] = I64_MAX

\* C5: mul and mulu store the low 64 bits of the product in dest; CF and OF
\* are both set iff the product is not representable as a signed (mul) or
\* unsigned (mulu) 64-bit value and both clear otherwise; ZF and SF keep
\* the values they had before the instruction.
C5_MulFlags ==
    /\ Did("Mul") =>
          LET product == IntMul(Signed(Lhs), Signed(Rhs))
              overflow == ~InSignedRange(product, 64)
          IN /\ Result = Pattern(product, 8)
             /\ flags.carry = IF overflow THEN "Carry" ELSE "NoCarry"
             /\ flags.overflow = IF overflow THEN "Overflow" ELSE "NoOverflow"
             /\ flags.zero = hist[1].pre.flags.zero
             /\ flags.sign = hist[1].pre.flags.sign
    /\ Did("Mulu") =>
          LET product == NatMul(Lhs, Rhs)
              overflow == NatLeq(Pow2(64), product)
          IN /\ Result = Trunc(product, 8)
             /\ flags.carry = IF overflow THEN "Carry" ELSE "NoCarry"
             /\ flags.overflow = IF overflow THEN "Overflow" ELSE "NoOverflow"
             /\ flags.zero = hist[1].pre.flags.zero
             /\ flags.sign = hist[1].pre.flags.sign

\* a mulu whose product 2^63 * 2 does not fit: the low 64 bits are 0 while
\* ZF stays clear
C5_Witness ==
    /\ Did("Mulu")
    /\ Lhs = I64_MIN
    /\ Rhs = U64(2)
    /\ IsZero(Result)
    /\ flags.carry = "Carry"
    /\ flags.overflow = "Overflow"
    /\ flags.zero = "NonZero"

\* ------------------------------------------------------------------------
\* Memory: loadN, loaduN and storeN
\* ------------------------------------------------------------------------

MaxMemOps == 1

\* memory as an executable's static data may fill it: bytes below and above
\* 0x80 at every alignment
DataMemory == [a \in 0..(MemSize - 1) |-> (a * 37 + 100) % 256]

MemValues == {<<1, 2, 3, 4, 5, 6, 7, 8>>, <<129, 130, 131, 132, 133, 134, 135, 136>>}
MemAddrs == {U64(0), U64(MemSize - 8), U64(MemSize - 1)}

MemDests == {Dest(0)}
MemLocs == {LocReg(1, NoOffset), LocReg(1, <<3, 0>>), LocImm(I128(MkInt(FALSE, <<5>>)))}
MemSources == {SrcReg(0), SrcImm(I128(MkInt(TRUE, <<2>>)))}

InitMem ==
    /\ build \in Builds
    /\ \E v \in MemValues, a \in MemAddrs :
          InitMachine([NewMachine EXCEPT !.memory = DataMemory,
                                         !.registers[0] = v, !.registers[1] = a])
    /\ hist = <<>>
    /\ calls = <<>>
    /\ enc = <<>>

MemLoad(kind, dest, loc) == Run(MaxMemOps, kind, <<dest, loc>>)
MemStore(kind, loc, source) == Run(MaxMemOps, kind, <<loc, source>>)

NextMem ==
    \/ \E kind \in DOMAIN LoadWidth, dest \in MemDests, loc \in MemLocs :
          MemLoad(kind, dest, loc)
    \/ \E kind \in DOMAIN StoreWidth, loc \in MemLocs, source \in MemSources :
          MemStore(kind, loc, source)

SpecMem == InitMem /\ [][NextMem]_vars

\* the last operation was a load / a store and it returned Ok
DidLoad == IF hist = <<>> THEN FALSE
           ELSE hist[1].instr.kind \in DOMAIN LoadWidth /\ hist[1].res.ok
DidStore == IF hist = <<>> THEN FALSE
            ELSE hist[1].instr.kind \in DOMAIN StoreWidth /\ hist[1].res.ok

\* the effective address of a location operand on machine m: the immediate,
\* or the register plus its offset, modulo 2^64
Effective(m, loc) ==
    IF loc.t = "Immediate" THEN Trunc(loc.imm, 8)
    ELSE IF loc.offset = NoOffset THEN m.registers[loc.reg]
    ELSE Pattern(IntAdd(Unsigned(m.registers[loc.reg]), Signed(loc.offset)), 8)

\* the n bytes from address a on lie within the memory
InBounds(a, n) == NatLeq(NatAdd(a, <<n>>), Capacity)

\* C9: for an in-bounds effective address a other than the stdin address,
\* loadN sets dest to the N bytes a..a+N-1 in little-endian order,
\* sign-extended to 64 bits, and loaduN to the same bytes zero-extended;
\* memory, flags and all other registers are unchanged.
C9_Load ==
    DidLoad =>
        LET kind == hist[1].instr.kind
            dest == hist[1].instr.args[1].reg
            a == Effective(hist[1].pre, hist[1].instr.args[2])
            n == LoadWidth[kind]
            unsigned == kind \in {"Loadu1", "Loadu2", "Loadu4", "Loadu8"}
        IN (InBounds(a, n) /\ a # STDIN_ADDR) =>
              LET bytes == Bytes(hist[1].pre.memory, Index(a), n)
                  fill == IF ~unsigned /\ bytes[n] >= 128 THEN 255 ELSE 0
              IN /\ \A j \in 1..8 :
                       registers[dest][j] = IF j <= n THEN bytes[j] ELSE fill
                 /\ \A r \in 0..(REGISTERS - 1) :
                       r # dest => registers[r] = hist[1].pre.registers[r]
                 /\ memory = hist[1].pre.memory
                 /\ flags = hist[1].pre.flags

\* a load4 of bytes whose top bit is set: the upper four bytes are ones
C9_Witness ==
    /\ DidLoad
    /\ hist[1].instr.kind = "Load4"
    /\ InBounds(Effective(hist[1].pre, hist[1].instr.args[2]), 4)
    /\ registers[0][4] >= 128
    /\ registers[0][5] = 255
    /\ registers[0][8] = 255

\* C10: for an in-bounds effective address a other than the stdout address,
\* storeN sets the bytes a..a+N-1 to the low N bytes of the source value in
\* little-endian order and leaves every other memory byte, every register
\* and the flags unchanged.
C10_Store ==
    DidStore =>
        LET a == Effective(hist[1].pre, hist[1].instr.args[1])
            n == StoreWidth[hist[1].instr.kind]
            value == source_value(hist[1].pre, hist[1].instr.args[2])
        IN (InBounds(a, n) /\ a # STDOUT_ADDR) =>
              /\ \A i \in 0..(MemSize - 1) :
                    memory[i] = IF Index(a) <= i /\ i < Index(a) + n
                                THEN value[i - Index(a) + 1]
                                ELSE hist[1].pre.memory[i]
              /\ registers = hist[1].pre.registers
              /\ flags = hist[1].pre.flags

\* a store2 of a register whose low two bytes differ from what memory held
C10_Witness ==
    /\ DidStore
    /\ hist[1].instr.kind = "Store2"
    /\ hist[1].instr.args[2] = SrcReg(0)
    /\ InBounds(Effective(hist[1].pre, hist[1].instr.args[1]), 2)
    /\ memory # hist[1].pre.memory
    /\ memory[Index(Effective(hist[1].pre, hist[1].instr.args[1]))] = registers[0][1]

\* ------------------------------------------------------------------------
\* The stack: push and pop
\* ------------------------------------------------------------------------

MaxStackOps == 2

StackValues == {<<1, 2, 3, 4, 5, 6, 7, 8>>, U64_MAX}
\* the stack pointer of a fresh machine, and of one with a single slot left
StackPointers == {Capacity, U64(8)}

StackSources == {SrcReg(0), SrcReg(SP), SrcImm(I128(MkInt(FALSE, <<42>>)))}
StackDests == {Dest(0), Dest(1), Dest(SP)}

InitStack ==
    /\ build \in Builds
    /\ \E v \in StackValues, sp \in StackPointers :
          InitMachine([NewMachine EXCEPT !.memory = DataMemory,
                                         !.registers[0] = v, !.registers[SP] = sp])
    /\ hist = <<>>
    /\ calls = <<>>
    /\ enc = <<>>

StackPush(source) == Run(MaxStackOps, "Push", <<source>>)
StackPop(dest) == Run(MaxStackOps, "Pop", <<dest>>)

NextStack ==
    \/ \E source \in StackSources : StackPush(source)
    \/ \E dest \in StackDests : StackPop(dest)

SpecStack == InitStack /\ [][NextStack]_vars

\* the last two operations were a push and then a pop, both returning Ok
PushedThenPopped ==
    IF Len(hist) < 2 THEN FALSE
    ELSE /\ hist[2].instr.kind = "Push" /\ hist[2].res.ok
         /\ hist[1].instr.kind = "Pop" /\ hist[1].res.ok

\* C8: push decrements SP by 8 and then writes the source value at [SP]; pop
\* reads the word at [SP] into dest and then increments SP by 8; so for any
\* source, SP included, whose value before the push is x, and any register r
\* other than SP, `push source` followed by `pop r` leaves r = x and SP equal
\* to its value before the push.
C8_PushPop ==
    (PushedThenPopped /\ hist[1].instr.args[1].reg # SP) =>
        /\ hist[1].pre.registers[SP] = DiffMod64(hist[2].pre.registers[SP], U64(8))
        /\ registers[hist[1].instr.args[1].reg]
              = source_value(hist[2].pre, hist[2].instr.args[1])
        /\ registers[SP] = hist[2].pre.registers[SP]

\* ------------------------------------------------------------------------
\* Running a program: Machine::push_quit_addr, then Machine::step until it
\* returns Quit or fails
\* ------------------------------------------------------------------------

MaxSteps == 5

\* an instruction statement: its kind and its layout
Stmt(kind, l, f) == [kind |-> kind, layout |-> [f |-> f, l |-> l]]

\* the immediate n as a field value
ImmOf(n) == I128(MkInt(FALSE, <<n>>))

\* Programs with a routine called from the entry routine.  The routine at 16
\* of the first keeps the stack balanced when entered at 16 and pops its own
\* return address when entered at 24.  The last pushes $0 and returns to it.
Programs ==
    { << Stmt("Call", 9, <<1>>), Stmt("Ret", 1, <<0, 0>>),
         Stmt("Push", 9, <<0>>), Stmt("Pop", 9, <<2>>), Stmt("Ret", 1, <<0, 0>>) >>,
      << Stmt("Nop", 1, <<0, 0>>), Stmt("Call", 10, <<ImmOf(24)>>),
         Stmt("Ret", 1, <<0, 0>>), Stmt("Ret", 1, <<0, 0>>) >>,
      << Stmt("Call", 10, <<ImmOf(16)>>), Stmt("Ret", 1, <<0, 0>>),
         Stmt("Push", 10, <<ImmOf(8)>>), Stmt("Ret", 1, <<0, 0>>) >>,
      << Stmt("Push", 9, <<0>>), Stmt("Ret", 1, <<0, 0>>) >>,
      << Stmt("Ret", 1, <<0, 0>>) >> }

RECURSIVE code_section(_)
\* the words of the instructions, each InstrLayout::to_binary in
\* little-endian order, as WriteMemory for [Stmt] writes them one after
\* the other
code_section(stmts) ==
    IF stmts = <<>> THEN <<>>
    ELSE to_binary_release(Head(stmts).layout, OPCODE(Head(stmts).kind))
         \o code_section(Tail(stmts))

\* WriteMemory::write_into: the bytes written from addr on
write_into(bytes, mem, addr) ==
    [a \in DOMAIN mem |->
        IF addr <= a /\ a < addr + Len(bytes) THEN bytes[a - addr + 1] ELSE mem[a]]

RunValues == {<<1, 2, 3, 4, 5, 6, 7, 8>>, U64_MAX}
RunTargets == {U64(16), U64(24), U64(32)}

InitRun ==
    /\ build \in Builds
    /\ \E program \in Programs, v \in RunValues, t \in RunTargets :
       \E bytes \in {code_section(program)} :
          InitMachine([NewMachine EXCEPT !.memory = write_into(bytes, NewMachine.memory, 0),
                                         !.registers[0] = v, !.registers[1] = t])
    /\ hist = <<>>
    /\ calls = <<>>
    /\ enc = <<>>

\* no step has returned Quit or failed
Stepping ==
    IF hist = <<>> THEN TRUE ELSE hist[1].res.ok /\ hist[1].res.v # "Quit"

\* Machine::push_quit_addr on the machine just built
Start ==
    /\ hist = <<>>
    /\ \E out \in {push_quit_addr(Machine)} :
          Apply([args |-> <<>>, kind |-> "push_quit_addr"], out, <<>>)
    /\ UNCHANGED calls

\* the word of the stack slot at address a
Slot(mem, a) == Bytes(mem, Index(a), 8)

\* the calls whose slot is still at or above the stack pointer sp
OnStack(cs, sp) == SelectSeq(cs, LAMBDA c : NatLeq(sp, c.slot))

\* a ret returns from the innermost call when the stack is balanced: SP is
\* at the slot the call pushed and the slot still holds the word
Returns(instr) ==
    IF instr.kind = "Ret" /\ calls # <<>>
    THEN calls[1].slot = registers[SP] /\ Slot(memory, calls[1].slot) = calls[1].word
    ELSE FALSE

\* Machine::step
Step ==
    /\ Stepping
    /\ Ops < MaxSteps
    /\ \E out \in {step(Machine, Debug)}, f \in {fetch(Machine, Debug)} :
       \E instr \in {IF f.ok THEN f.v ELSE [args |-> <<>>, kind |-> "None"]} :
          /\ Apply(instr, out, IF out.res.ok /\ Returns(instr) THEN <<calls[1]>> ELSE <<>>)
          /\ calls' =
                IF ~out.res.ok THEN calls
                ELSE IF instr.kind = "Call"
                THEN << [at |-> program_counter, slot |-> out.m.registers[SP],
                         sp |-> registers[SP],
                         word |-> Slot(out.m.memory, out.m.registers[SP])] >> \o calls
                ELSE IF Returns(instr) THEN OnStack(Tail(calls), out.m.registers[SP])
                ELSE OnStack(calls, out.m.registers[SP])

NextRun == Start \/ Step

SpecRun == InitRun /\ [][NextRun]_vars

\* a + 8 mod 2^64
Plus8(a) == Trunc(NatAdd(a, <<8>>), 8)

Stepped ==
    IF hist = <<>> THEN FALSE
    ELSE hist[1].instr.kind # "push_quit_addr" /\ hist[1].res.ok

\* C7: a step returns Quit iff the program counter equals the sentinel
\* 0xFFFF_FFFF_FFFF_FFFF after the instruction executed, and Continue
\* otherwise; push_quit_addr, called before the first step, pushes the
\* sentinel, so the ret of an entry routine that kept the stack balanced
\* reaches Quit, with SP back at the memory capacity.
C7_Quit ==
    /\ Stepped =>
          /\ hist[1].res.v \in {"Quit", "Continue"}
          /\ (hist[1].res.v = "Quit") <=> (program_counter = QUIT_ADDR)
    /\ (hist # <<>>) =>
          (hist[1].instr.kind = "push_quit_addr" =>
              /\ hist[1].res.ok
              /\ registers[SP] = DiffMod64(Capacity, U64(8))
              /\ Slot(memory, registers[SP]) = QUIT_ADDR)
    /\ Did("Ret") =>
          LET sp == hist[1].pre.registers[SP]
          IN (sp = DiffMod64(Capacity, U64(8)) /\ Slot(hist[1].pre.memory, sp) = QUIT_ADDR) =>
                /\ hist[1].res.v = "Quit"
                /\ registers[SP] = Capacity

\* ------------------------------------------------------------------------
\* Jumps: a conditional jump on a machine with any flags
\* ------------------------------------------------------------------------

MaxJumpOps == 1

AllFlags ==
    [carry : {"Carry", "NoCarry"}, overflow : {"Overflow", "NoOverflow"},
     sign : {"NegativeSign", "PositiveSign"}, zero : {"Zero", "NonZero"}]

\* the conditional jumps with a handler
CondJumps == JumpKinds \ {"Jmp"}

JumpLocs == {LocReg(1, NoOffset), LocReg(1, <<8, 0>>), LocImm(I128(MkInt(FALSE, <<40>>)))}

InitJump ==
    /\ build \in Builds
    /\ \E f \in AllFlags :
          InitMachine([NewMachine EXCEPT !.flags = f, !.program_counter = U64(8),
                                         !.registers[1] = U64(24)])
    /\ hist = <<>>
    /\ calls = <<>>
    /\ enc = <<>>

Jump(kind, loc) == Run(MaxJumpOps, kind, <<loc>>)

NextJump == \E kind \in CondJumps, loc \in JumpLocs : Jump(kind, loc)

SpecJump == InitJump /\ [][NextJump]_vars

\* the last operation was a conditional jump and it returned Ok
DidJump == IF hist = <<>> THEN FALSE
           ELSE hist[1].instr.kind \in CondJumps /\ hist[1].res.ok

\* the flag condition of a conditional jump, in terms of CF, ZF, SF, OF
Taken(kind, f) ==
    LET CF == f.carry = "Carry"
        ZF == f.zero = "Zero"
        SF == f.sign = "NegativeSign"
        OF == f.overflow = "Overflow"
    IN CASE kind \in {"Je", "Jz"}   -> ZF
         [] kind \in {"Jne", "Jnz"} -> ~ZF
         [] kind = "Jg"  -> (SF <=> OF) /\ ~ZF
         [] kind = "Jge" -> (SF <=> OF) \/ ZF
         [] kind = "Jl"  -> ~(SF <=> OF)
         [] kind = "Jle" -> ~(SF <=> OF) \/ ZF
         [] kind = "Ja"  -> ~CF /\ ~ZF
         [] kind = "Jae" -> ~CF \/ ZF
         [] kind = "Jb"  -> CF
         [] kind = "Jbe" -> CF \/ ZF
         [] kind = "Jo"  -> OF
         [] kind = "Jno" -> ~OF

\* C11: a conditional jump sets the program counter to its target address
\* when its flag condition holds (je/jz ZF=1; jne/jnz ZF=0; jg SF=OF and
\* ZF=0; jge SF=OF or ZF=1; jl SF#OF; jle SF#OF or ZF=1; ja CF=0 and ZF=0;
\* jae CF=0 or ZF=1; jb CF=1; jbe CF=1 or ZF=1; jo OF=1; jno OF=0) and leaves
\* it unchanged otherwise; flags, registers and memory are unchanged.
C11_Jumps ==
    DidJump =>
        /\ program_counter =
              IF Taken(hist[1].instr.kind, hist[1].pre.flags)
              THEN Effective(hist[1].pre, hist[1].instr.args[1])
              ELSE hist[1].pre.program_counter
        /\ flags = hist[1].pre.flags
        /\ registers = hist[1].pre.registers
        /\ memory = hist[1].pre.memory

\* jg with SF = OF = 1 and ZF = 0 jumps to the register plus its offset
C11_Witness ==
    /\ Did("Jg")
    /\ hist[1].pre.flags.sign = "NegativeSign"
    /\ hist[1].pre.flags.overflow = "Overflow"
    /\ hist[1].pre.flags.zero = "NonZero"
    /\ hist[1].instr.args[1] = LocReg(1, <<8, 0>>)
    /\ program_counter = U64(32)

\* ------------------------------------------------------------------------
\* Division: divru on registers
\* ------------------------------------------------------------------------

MaxDivOps == 1

DivValues == {U64(100), I64_MIN, U64_MAX}
Divisors == {U64(0), U64(3), <<0, 0, 0, 0, 1, 0, 0, 0>>}
DivSources == {SrcReg(1), SrcImm(I128(MkInt(FALSE, <<0>>))), SrcImm(I128(MkInt(FALSE, <<7>>))),
               SrcImm(I128(MkInt(TRUE, <<2>>)))}
DivRems == {Dest(2), Dest(0)}

InitDiv ==
    /\ build \in Builds
    /\ \E v \in DivValues, d \in Divisors, f \in AluFlags \ {DefaultFlags} :
          InitMachine([NewMachine EXCEPT !.flags = f, !.registers[0] = v,
                                         !.registers[1] = d])
    /\ hist = <<>>
    /\ calls = <<>>
    /\ enc = <<>>

Divru(dest_rem, dest, source) == Run(MaxDivOps, "Divru", <<dest_rem, dest, source>>)

NextDiv == \E dest_rem \in DivRems, source \in DivSources : Divru(dest_rem, Dest(0), source)

SpecDiv == InitDiv /\ [][NextDiv]_vars

\* the last operation was a divru, whatever it returned
TriedDivru == IF hist = <<>> THEN FALSE ELSE hist[1].instr.kind = "Divru"

\* the value of the source operand of the last divru
Divisor == source_value(hist[1].pre, hist[1].instr.args[3])

\* q and r are the quotient and the remainder of n by d # 0
IsDivision(n, d, q, r) ==
    /\ NatLess(r, d)
    /\ NatEq(NatAdd(NatMul(q, d), r), n)

\* C12: divru with distinct dest and dest_rem registers and a source value
\* d # 0 stores the unsigned quotient of dest by d in dest and the unsigned
\* remainder in dest_rem; with d = 0 it returns the DivideByZero error and
\* changes no register, no flag and no memory byte.
C12_Divru ==
    TriedDivru =>
        LET rem == hist[1].instr.args[1].reg
            dest == hist[1].instr.args[2].reg
        IN IF IsZero(Divisor)
           THEN /\ hist[1].res = Err("DivideByZero")
                /\ Machine = hist[1].pre
           ELSE rem # dest =>
                /\ hist[1].res.ok
                /\ IsDivision(hist[1].pre.registers[dest], Divisor,
                              registers[dest], registers[rem])
                /\ \A r \in DOMAIN registers :
                      r \notin {dest, rem} => registers[r] = hist[1].pre.registers[r]
                /\ memory = hist[1].pre.memory

\* 100 divided by 7: quotient 14 in dest, remainder 2 in dest_rem
C12_Witness ==
    /\ Did("Divru")
    /\ hist[1].pre.registers[0] = U64(100)
    /\ Divisor = U64(7)
    /\ hist[1].instr.args[1] = Dest(2)
    /\ registers[0] = U64(14)
    /\ registers[2] = U64(2)

\* a divru by zero returned the DivideByZero error
C12_WitnessZero ==
    /\ TriedDivru
    /\ IsZero(Divisor)
    /\ hist[1].res = Err("DivideByZero")

\* ------------------------------------------------------------------------
\* Decoding words (Instr::decode applied to any 64-bit word)
\* ------------------------------------------------------------------------

\* every value of the 12-bit opcode field
Opcodes == 0..(2 ^ size_bits("Opcode") - 1)

\* the 52 argument bits of the words decoded: all clear, all set, mixed
Payloads == {Zeros(8), <<255, 255, 255, 255, 255, 255, 15, 0>>, <<1, 2, 3, 4, 5, 6, 7, 0>>}

InitDec ==
    /\ build \in Builds
    /\ InitMachine(NewMachine)
    /\ hist = <<>>
    /\ calls = <<>>
    /\ \E x \in Opcodes, p \in Payloads :
          enc = << [opcode |-> x, stage |-> "word", word |-> write("Opcode", x, 0, p)] >>

\* Instr::decode of the word
Decode ==
    /\ Len(enc) = 1
    /\ enc[1].stage = "word"
    /\ \E dec \in {Decoded(enc[1].word, Debug)} :
          enc' = << [dec |-> dec, opcode |-> enc[1].opcode, stage |-> "decoded",
                     word |-> enc[1].word] >>
    /\ UNCHANGED <<build, machine_vars, hist, calls>>

NextDec == Decode

SpecDec == InitDec /\ [][NextDec]_vars

\* a word has been decoded
DecodedWord == Len(enc) = 1 /\ enc[1].stage = "decoded"

\* the kinds whose base opcode b satisfies b <= x <= b + 10
KindsAt(x) == {k \in 1..Len(Kinds) : Kinds[k].opcode <= x /\ x <= Kinds[k].opcode + 10}

\* C13: for every 12-bit opcode x, if x = b + o for the base opcode b of a
\* kind K and 0 <= o <= 10 then decode identifies K with layout offset o (K
\* and o are unique) and does not answer InvalidOpcode; for every other x
\* decode returns InvalidOpcode.
C13_Opcode ==
    DecodedWord =>
        LET x == enc[1].opcode
            dec == enc[1].dec
        IN IF KindsAt(x) # {}
           THEN /\ Cardinality(KindsAt(x)) = 1
                /\ \A k \in KindsAt(x) :
                      /\ dec.kind = Kinds[k].name
                      /\ dec.offset = x - Kinds[k].opcode
                      /\ dec.instr.ok => dec.instr.v.kind = Kinds[k].name
                /\ dec.instr # Err("InvalidOpcode")
           ELSE dec.instr = Err("InvalidOpcode")

\* divru with layout L8: opcode 120 + 7
C13_Witness ==
    /\ DecodedWord
    /\ enc[1].opcode = OPCODE("Divru") + 7
    /\ enc[1].dec.offset = 7
    /\ enc[1].dec.instr.ok
    /\ enc[1].dec.instr.v.kind = "Divru"

\* offset 11 within the slot of add: InvalidOpcode
C13_WitnessInvalid ==
    /\ DecodedWord
    /\ enc[1].opcode = OPCODE("Add") + 11
    /\ enc[1].dec.instr = Err("InvalidOpcode")

\* the layouts that the selection table gives to an operand shape
Permits(shape, l) ==
    CASE shape = "Nullary"     -> l = 1
      [] shape = "DestSrc"     -> l \in {1, 2}
      [] shape = "SrcSrc"      -> l \in {1, 2, 3, 6}
      [] shape = "DestLoc"     -> l \in {1, 2, 4}
      [] shape = "LocSrc"      -> l \in {1, 2, 3, 4, 5, 6}
      [] shape = "DestDestSrc" -> l \in {7, 8}
      [] shape = "Src"         -> l \in {9, 10}
      [] shape = "Dest"        -> l = 9
      [] shape = "Loc"         -> l \in {9, 10, 11}

\* C14: decoding a word whose opcode is base(K) + o with 0 <= o <= 10, when
\* it returns, succeeds iff the layout of offset o is one that the operand
\* shape of K permits; for every other layout it returns
\* UnsupportedInstructionLayout.
C14_Layouts ==
    (DecodedWord /\ KindsAt(enc[1].opcode) # {} /\ enc[1].dec.instr # Err(Panic)) =>
        \A k \in KindsAt(enc[1].opcode) :
            IF Permits(Kinds[k].shape, enc[1].dec.offset + 1)
            THEN enc[1].dec.instr.ok
            ELSE enc[1].dec.instr = Unsupported

\* the same for the kinds that take operands
C14_WithOperands ==
    (DecodedWord /\ KindsAt(enc[1].opcode) # {} /\ enc[1].dec.instr # Err(Panic)) =>
        \A k \in KindsAt(enc[1].opcode) :
            Kinds[k].shape # "Nullary" =>
                IF Permits(Kinds[k].shape, enc[1].dec.offset + 1)
                THEN enc[1].dec.instr.ok
                ELSE enc[1].dec.instr = Unsupported

\* ------------------------------------------------------------------------
\* asm/src/asm/layout.rs, asm/src/label_offsets.rs: choosing the layout of
\* the arguments of an instruction
\* ------------------------------------------------------------------------

\* x <= y on integers
IntLeq(x, y) ==
    IF x.neg # y.neg THEN x.neg
    ELSE IF x.neg THEN NatLeq(y.mag, x.mag) ELSE NatLeq(x.mag, y.mag)

\* asm::Register {kind}: Numbered(n), StackPointer or FramePointer
Numbered(n) == [kind |-> "Numbered", n |-> n]
StackPointer == [kind |-> "StackPointer", n |-> 0]
FramePointer == [kind |-> "FramePointer", n |-> 0]

\* asm::Source, asm::Destination and asm::Location; an immediate is an i128
\* given as an integer, an offset the 2-byte pattern of an i16 or NoOffset
AsmReg(reg) == [offset |-> NoOffset, reg |-> reg, t |-> "Register"]
AsmRegOff(reg, offset) == [offset |-> offset, reg |-> reg, t |-> "Register"]
AsmImm(value) == [t |-> "Immediate", value |-> value]
AsmLabel(name) == [label |-> name, t |-> "Label"]

\* a value built together with the diagnostics emitted while building it
Built(v) == [d |-> <<>>, v |-> v]
Diagnosed(message, v) == [d |-> <<message>>, v |-> v]

\* LabelOffsets::lookup: the offset of the label as an immediate; an unknown
\* label is reported and taken to be zero
lookup(labels, name) ==
    IF name \in DOMAIN labels THEN Built(AsmImm(Unsigned(labels[name])))
    ELSE Diagnosed("unknown label", AsmImm(MkInt(FALSE, <<0>>)))

\* Src::new, Dest::new and Loc::new: labels resolved to immediates
operand_new(operand, labels) ==
    IF operand.t = "Label" THEN lookup(labels, operand.label) ELSE Built(operand)

\* From<asm::RegisterKind> for Reg
reg_from(reg) ==
    CASE reg.kind = "StackPointer" -> REGISTERS - 1
      [] reg.kind = "FramePointer" -> REGISTERS - 2
      [] reg.kind = "Numbered"     -> reg.n

\* validate_immediate accepting every value up to the unsigned maximum of the
\* field, 2^bits - 1
validate_immediate_unsigned_max(ty, imm) ==
    LET bits == ImmBits[ty]
        smin == MkInt(TRUE, Pow2(bits - 1))
        umax == MkInt(FALSE, NatSub(Pow2(bits), <<1>>))
    IN IF IntLeq(smin, imm.value) /\ IntLeq(imm.value, umax)
       THEN Built(I128(imm.value))
       ELSE Diagnosed("immediate value must fit", I128(MkInt(FALSE, <<0>>)))

\* ImmSize::validate_immediate
validate_immediate(ty, imm) ==
    LET bits == ImmBits[ty]
        smin == MkInt(TRUE, Pow2(bits - 1))
        umax == MkInt(FALSE, NatSub(Pow2(bits - 1), <<1>>))
    IN IF IntLeq(smin, imm.value) /\ IntLeq(imm.value, umax)
       THEN Built(I128(imm.value))
       ELSE Diagnosed("immediate value must fit", I128(MkInt(FALSE, <<0>>)))

\* Reg::new, Offset::new or Imm::new, as the type of the field asks
field_new(ty, part) ==
    CASE ty = "Reg"    -> Built(reg_from(part))
      [] ty = "Offset" -> Built(part)
      [] OTHER         -> validate_immediate(ty, part)

RECURSIVE Diags(_)
Diags(built) == IF built = <<>> THEN <<>> ELSE Head(built).d \o Diags(Tail(built))

\* Layout::Ln(Ln(..)) of the parts, each made into its field in turn
layout_new(l, parts) ==
    LET fields == [i \in 1..Len(parts) |-> field_new(LayoutFields[l][i], parts[i])]
    IN [d |-> Diags(fields),
        layout |-> [f |-> [i \in 1..Len(parts) |-> fields[i].v], l |-> l]]

IsReg(o) == o.t = "Register" /\ o.offset = NoOffset
IsRegOff(o) == o.t = "Register" /\ o.offset # NoOffset
IsImm(o) == o.t = "Immediate"

\* impl LayoutArguments for (Location, Source) with (Imm, R) laid out as
\* L2(reg, imm)
layout_loc_src_imm_reg_as_l2(loc, src) ==
    CASE IsReg(loc) /\ src.t = "Register"    -> layout_new(1, <<loc.reg, src.reg>>)
      [] IsReg(loc) /\ IsImm(src)            -> layout_new(2, <<loc.reg, src>>)
      [] IsRegOff(loc) /\ src.t = "Register" -> layout_new(4, <<loc.reg, src.reg, loc.offset>>)
      [] IsRegOff(loc) /\ IsImm(src)         -> layout_new(5, <<loc.reg, loc.offset, src>>)
      [] IsImm(loc) /\ src.t = "Register"    -> layout_new(2, <<src.reg, loc>>)
      [] IsImm(loc) /\ IsImm(src)            -> layout_new(6, <<loc, src>>)

\* impl LayoutArguments for (Location, Source), operands already resolved
layout_loc_src(loc, src) ==
    CASE IsReg(loc) /\ src.t = "Register"    -> layout_new(1, <<loc.reg, src.reg>>)
      [] IsReg(loc) /\ IsImm(src)            -> layout_new(2, <<loc.reg, src>>)
      [] IsRegOff(loc) /\ src.t = "Register" -> layout_new(4, <<loc.reg, src.reg, loc.offset>>)
      [] IsRegOff(loc) /\ IsImm(src)         -> layout_new(5, <<loc.reg, loc.offset, src>>)
      [] IsImm(loc) /\ src.t = "Register"    -> layout_new(3, <<loc, src.reg>>)
      [] IsImm(loc) /\ IsImm(src)            -> layout_new(6, <<loc, src>>)

\* the impls of LayoutArguments for the other shapes, operands a resolved
layout_resolved(shape, a) ==
    CASE shape = "Nullary" -> layout_new(1, <<Numbered(0), Numbered(0)>>)
      [] shape = "DestSrc" ->
           IF a[2].t = "Register" THEN layout_new(1, <<a[1].reg, a[2].reg>>)
           ELSE layout_new(2, <<a[1].reg, a[2]>>)
      [] shape = "SrcSrc" ->
           (CASE a[1].t = "Register" /\ a[2].t = "Register" -> layout_new(1, <<a[1].reg, a[2].reg>>)
             [] a[1].t = "Register" /\ IsImm(a[2])         -> layout_new(2, <<a[1].reg, a[2]>>)
             [] IsImm(a[1]) /\ a[2].t = "Register"         -> layout_new(3, <<a[1], a[2].reg>>)
             [] IsImm(a[1]) /\ IsImm(a[2])                 -> layout_new(6, <<a[1], a[2]>>))
      [] shape = "DestLoc" ->
           (CASE IsReg(a[2])    -> layout_new(1, <<a[1].reg, a[2].reg>>)
             [] IsRegOff(a[2]) -> layout_new(4, <<a[1].reg, a[2].reg, a[2].offset>>)
             [] IsImm(a[2])    -> layout_new(2, <<a[1].reg, a[2]>>))
      [] shape = "LocSrc" -> layout_loc_src(a[1], a[2])
      [] shape = "DestDestSrc" ->
           IF a[3].t = "Register" THEN layout_new(7, <<a[1].reg, a[2].reg, a[3].reg>>)
           ELSE layout_new(8, <<a[1].reg, a[2].reg, a[3]>>)
      [] shape = "Src" ->
           IF a[1].t = "Register" THEN layout_new(9, <<a[1].reg>>)
           ELSE layout_new(10, <<a[1]>>)
      [] shape = "Dest" -> layout_new(9, <<a[1].reg>>)
      [] shape = "Loc" ->
           (CASE IsReg(a[1])    -> layout_new(9, <<a[1].reg>>)
             [] IsRegOff(a[1]) -> layout_new(11, <<a[1].reg, a[1].offset>>)
             [] IsImm(a[1])    -> layout_new(10, <<a[1]>>))

\* LayoutArguments::layout: the operands are resolved in order, then the
\* layout is chosen and its fields built
layout(shape, args, labels) ==
    LET resolved == [i \in 1..Len(args) |-> operand_new(args[i], labels)]
        chosen == layout_resolved(shape, [i \in 1..Len(args) |-> resolved[i].v])
    IN [d |-> Diags(resolved) \o chosen.d, layout |-> chosen.layout]

\* the labels of the program being assembled, with their offsets
LabelMap == [data |-> U64(24), far |-> Pad(Pow2(51), 8), start |-> U64(0)]

AsmRegs == {Numbered(0), Numbered(5), FramePointer, StackPointer}

ImmTypes == DOMAIN ImmBits

\* the bounds of every immediate field and their neighbours, 0 and -1
ImmLiterals ==
    {MkInt(FALSE, <<0>>), MkInt(TRUE, <<1>>)}
    \cup UNION {{MkInt(TRUE, NatAdd(Pow2(ImmBits[ty] - 1), <<1>>)),
                 MkInt(TRUE, Pow2(ImmBits[ty] - 1)),
                 MkInt(FALSE, NatSub(Pow2(ImmBits[ty] - 1), <<1>>)),
                 MkInt(FALSE, Pow2(ImmBits[ty] - 1))} : ty \in ImmTypes}

ImmOperands == {AsmImm(v) : v \in ImmLiterals}
               \cup {AsmLabel(name) : name \in {"data", "far", "missing"}}
DestOperands == {AsmReg(r) : r \in AsmRegs}
SrcOperands == DestOperands \cup ImmOperands
LocOperands == SrcOperands
               \cup {AsmRegOff(r, o) : r \in AsmRegs, o \in {<<8, 0>>, <<255, 255>>}}

ArgsOf(shape) ==
    CASE shape = "Nullary"     -> {<<>>}
      [] shape = "DestSrc"     -> {<<a, b>> : a \in DestOperands, b \in SrcOperands}
      [] shape = "SrcSrc"      -> {<<a, b>> : a \in SrcOperands, b \in SrcOperands}
      [] shape = "DestLoc"     -> {<<a, b>> : a \in DestOperands, b \in LocOperands}
      [] shape = "LocSrc"      -> {<<a, b>> : a \in LocOperands, b \in SrcOperands}
      [] shape = "DestDestSrc" -> {<<a, b, c>> : a \in DestOperands, b \in DestOperands,
                                                 c \in SrcOperands}
      [] shape = "Src"         -> {<<a>> : a \in SrcOperands}
      [] shape = "Dest"        -> {<<a>> : a \in DestOperands}
      [] shape = "Loc"         -> {<<a>> : a \in LocOperands}

Shapes == {Kinds[k].shape : k \in 1..Len(Kinds)}

\* the assembler's inputs: the arguments of an instruction of some shape, or
\* an operand to be made into an immediate field of some size
InitLay ==
    /\ build \in Builds
    /\ InitMachine(NewMachine)
    /\ hist = <<>>
    /\ calls = <<>>
    /\ \/ \E shape \in Shapes : \E args \in ArgsOf(shape) :
             enc = << [args |-> args, shape |-> shape, stage |-> "args"] >>
       \/ \E ty \in ImmTypes, operand \in ImmOperands :
             enc = << [operand |-> operand, stage |-> "operand", ty |-> ty] >>

\* LayoutArguments::layout of the arguments
Layout ==
    /\ Len(enc) = 1
    /\ enc[1].stage = "args"
    /\ \E out \in {layout(enc[1].shape, enc[1].args, LabelMap)} :
          enc' = << [args |-> enc[1].args, out |-> out, shape |-> enc[1].shape,
                     stage |-> "laid out"] >>
    /\ UNCHANGED <<build, machine_vars, hist, calls>>

\* Src::new of the operand, then Imm::<S>::new of the immediate it gives
NewImm ==
    /\ Len(enc) = 1
    /\ enc[1].stage = "operand"
    /\ \E resolved \in {operand_new(enc[1].operand, LabelMap)} :
       \E imm \in {validate_immediate(enc[1].ty, resolved.v)} :
          enc' = << [imm |-> imm, operand |-> enc[1].operand, resolved |-> resolved,
                     stage |-> "built", ty |-> enc[1].ty] >>
    /\ UNCHANGED <<build, machine_vars, hist, calls>>

NextLay == Layout \/ NewImm

SpecLay == InitLay /\ [][NextLay]_vars

LaidOut == Len(enc) = 1 /\ enc[1].stage = "laid out"
BuiltImm == Len(enc) = 1 /\ enc[1].stage = "built"

\* R, R+off or Imm: the variant of an operand, a label being an immediate
Variant(o) ==
    IF o.t = "Register" THEN (IF o.offset = NoOffset THEN "R" ELSE "R+off") ELSE "Imm"

\* the selection table
Selected(shape, v) ==
    CASE shape = "DestSrc" ->
           (CASE v = <<"R", "R">> -> 1 [] v = <<"R", "Imm">> -> 2)
      [] shape = "SrcSrc" ->
           (CASE v = <<"R", "R">> -> 1 [] v = <<"R", "Imm">> -> 2
             [] v = <<"Imm", "R">> -> 3 [] v = <<"Imm", "Imm">> -> 6)
      [] shape = "DestLoc" ->
           (CASE v = <<"R", "R">> -> 1 [] v = <<"R", "R+off">> -> 4 [] v = <<"R", "Imm">> -> 2)
      [] shape = "LocSrc" ->
           (CASE v = <<"R", "R">> -> 1 [] v = <<"R", "Imm">> -> 2
             [] v = <<"R+off", "R">> -> 4 [] v = <<"R+off", "Imm">> -> 5
             [] v = <<"Imm", "R">> -> 3 [] v = <<"Imm", "Imm">> -> 6)
      [] shape = "DestDestSrc" ->
           (CASE v = <<"R", "R", "R">> -> 7 [] v = <<"R", "R", "Imm">> -> 8)
      [] shape = "Src" -> (CASE v = <<"R">> -> 9 [] v = <<"Imm">> -> 10)
      [] shape = "Dest" -> (CASE v = <<"R">> -> 9)
      [] shape = "Loc" ->
           (CASE v = <<"R">> -> 9 [] v = <<"R+off">> -> 11 [] v = <<"Imm">> -> 10)

\* the value an operand stands for: the literal, or the offset of the label
ValueOf(o) ==
    IF o.t = "Label"
    THEN (IF o.label \in DOMAIN LabelMap THEN Unsigned(LabelMap[o.label]) ELSE MkInt(FALSE, <<0>>))
    ELSE o.value

\* a field holds the register or the value of the operand; nothing is said
\* here of a value that the field cannot hold
Holds(field, ty, o) ==
    IF o.t = "Register" THEN ty = "Reg" /\ field = reg_from(o.reg)
    ELSE /\ ty \in ImmTypes
         /\ InSignedRange(ValueOf(o), ImmBits[ty]) => field = I128(ValueOf(o))

\* the indexes of the fields of layout l that are not offsets, in order
MainFields(l) ==
    SelectSeq([i \in 1..Len(LayoutFields[l]) |-> i], LAMBDA i : LayoutFields[l][i] # "Offset")

\* C15: for each operand shape the layout chosen is the one of the selection
\* table, a label operand being treated as an immediate, and the registers
\* and immediates of the operands fill the fields in operand order, the
\* offset of a register+offset operand filling the offset field.
C15_Selection ==
    (LaidOut /\ enc[1].shape # "Nullary") =>
        LET args == enc[1].args
            l == enc[1].out.layout.l
            f == enc[1].out.layout.f
            main == MainFields(l)
        IN /\ l = Selected(enc[1].shape, [i \in 1..Len(args) |-> Variant(args[i])])
           /\ Len(f) = Len(LayoutFields[l])
           /\ Len(main) = Len(args)
           /\ \A j \in 1..Len(args) : Holds(f[main[j]], LayoutFields[l][main[j]], args[j])
           /\ \A i \in 1..Len(f) :
                 LayoutFields[l][i] = "Offset" =>
                     \E j \in 1..Len(args) : Variant(args[j]) = "R+off" /\ f[i] = args[j].offset
           /\ \A j \in 1..Len(args) :
                 Variant(args[j]) = "R+off" =>
                     \E i \in 1..Len(f) : LayoutFields[l][i] = "Offset"

\* store-like (Loc, Src) with $sp+8 and the label data: L5(63, 8, 24)
C15_Witness ==
    /\ LaidOut
    /\ enc[1].shape = "LocSrc"
    /\ enc[1].args = <<AsmRegOff(StackPointer, <<8, 0>>), AsmLabel("data")>>
    /\ enc[1].out.layout = [f |-> <<63, <<8, 0>>, I128(MkInt(FALSE, <<24>>))>>, l |-> 5]
    /\ enc[1].out.d = <<>>

\* (Loc, Src) with an immediate location and a register source: L3(imm, reg)
C15_WitnessImmReg ==
    /\ LaidOut
    /\ enc[1].shape = "LocSrc"
    /\ enc[1].args = <<AsmImm(MkInt(TRUE, <<1>>)), AsmReg(Numbered(5))>>
    /\ enc[1].out.layout = [f |-> <<Ones(16), 5>>, l |-> 3]

\* C16: building an immediate field of n bits from a value v, literal or the
\* offset of a label, keeps v and emits no diagnostic iff
\* -2^(n-1) <= v <= 2^(n-1) - 1; otherwise it emits an error diagnostic and
\* the field holds 0.
C16_Immediate ==
    BuiltImm =>
        LET v == enc[1].resolved.v.value
            n == ImmBits[enc[1].ty]
        IN /\ v = ValueOf(enc[1].operand)
           /\ IF InSignedRange(v, n)
              THEN enc[1].imm.v = I128(v) /\ enc[1].imm.d = <<>>
              ELSE enc[1].imm.v = Zeros(16) /\ Len(enc[1].imm.d) = 1

\* the least value of a 26-bit field is kept
C16_Witness ==
    /\ BuiltImm
    /\ enc[1].ty = "S26"
    /\ enc[1].operand = AsmImm(MkInt(TRUE, Pow2(25)))
    /\ enc[1].imm = Built(I128(MkInt(TRUE, Pow2(25))))

\* 2^25 does not fit a 26-bit field: a diagnostic, and the field holds 0
C16_WitnessRejected ==
    /\ BuiltImm
    /\ enc[1].ty = "S26"
    /\ enc[1].operand = AsmImm(MkInt(FALSE, Pow2(25)))
    /\ enc[1].imm.d # <<>>
    /\ enc[1].imm.v = Zeros(16)

\* the offset 2^51 of the label far does not fit a 52-bit field
C16_WitnessLabel ==
    /\ BuiltImm
    /\ enc[1].ty = "S52"
    /\ enc[1].operand = AsmLabel("far")
    /\ enc[1].resolved.d = <<>>
    /\ enc[1].imm.d # <<>>
    /\ enc[1].imm.v = Zeros(16)

\* ------------------------------------------------------------------------
\* asm/src/asm.rs, asm/src/label_offsets.rs: the offsets of the labels
\* ------------------------------------------------------------------------

\* asm::Stmt: its labels and its kind, an instruction or a static data
\* directive (.b1 .b2 .b4 .b8 with a value, .zero and .uninit with nbytes,
\* .bytes with a literal)
AsmStmt(kind, labels, nbytes, bytes) ==
    [bytes |-> bytes, kind |-> kind, labels |-> labels, nbytes |-> nbytes]

\* An absent section (Option::None)
NoSection == [section |-> FALSE, stmts |-> <<>>]
Section(stmts) == [section |-> TRUE, stmts |-> stmts]

\* Stmt::size_bytes
size_bytes(stmt) ==
    CASE stmt.kind = "Instr"  -> 8
      [] stmt.kind = "B1"     -> 1
      [] stmt.kind = "B2"     -> 2
      [] stmt.kind = "B4"     -> 4
      [] stmt.kind = "B8"     -> 8
      [] stmt.kind = "Zero"   -> stmt.nbytes
      [] stmt.kind = "Uninit" -> stmt.nbytes
      [] stmt.kind = "Bytes"  -> Len(stmt.bytes)

\* Program::iter_all_stmts chaining the static section before the code
\* section
iter_all_stmts_static_first(prog) ==
    (IF prog.static_section.section THEN prog.static_section.stmts ELSE <<>>)
    \o (IF prog.code_section.section THEN prog.code_section.stmts ELSE <<>>)

\* Program::iter_all_stmts: the statements of the code section, then those
\* of the static section
iter_all_stmts(prog) ==
    (IF prog.code_section.section THEN prog.code_section.stmts ELSE <<>>)
    \o (IF prog.static_section.section THEN prog.static_section.stmts ELSE <<>>)

\* the loop of LabelOffsets::new: every label of the statement is inserted
\* with the current offset, to which the size of the statement is then added
\* (u64: a panic on overflow in a debug build)
RECURSIVE label_offsets_from(_, _, _, _)
label_offsets_from(stmts, offsets, current_offset, debug) ==
    IF stmts = <<>> THEN Ok(offsets)
    ELSE LET stmt == Head(stmts)
             here == {stmt.labels[i] : i \in 1..Len(stmt.labels)}
             inserted == [name \in DOMAIN offsets \cup here |->
                             IF name \in here THEN current_offset ELSE offsets[name]]
             next_offset == add_u64(current_offset, U64(size_bytes(stmt)), debug)
         IN IF ~next_offset.ok THEN next_offset
            ELSE label_offsets_from(Tail(stmts), inserted, next_offset.v, debug)

\* LabelOffsets::new
label_offsets_new(prog, debug) ==
    label_offsets_from(iter_all_stmts(prog), <<>>, U64(0), debug)

MaxCodeStmts == 2
MaxStaticStmts == 2

CodeLabels == <<"c1", "c2", "c3", "c4">>
StaticLabels == <<"s1", "s2", "s3", "s4">>

\* statements without their labels
CodeStmts == {AsmStmt("Instr", <<>>, 0, <<>>), AsmStmt("Zero", <<>>, 3, <<>>)}
StaticStmts ==
    {AsmStmt(k, <<>>, 0, <<>>) : k \in {"Instr", "B1", "B2", "B4", "B8"}}
    \cup {AsmStmt("Zero", <<>>, 3, <<>>), AsmStmt("Uninit", <<>>, 5, <<>>),
          AsmStmt("Bytes", <<>>, 0, <<104, 105, 33>>)}

\* the sequences of at most max_len elements of stmt_set
SeqsUpTo(stmt_set, max_len) == UNION {[1..n -> stmt_set] : n \in 0..max_len}

\* statement i takes label i of names; the first statement has a second label
Labelled(stmts, names, extra) ==
    [i \in 1..Len(stmts) |->
        [stmts[i] EXCEPT !.labels = IF i = 1 THEN <<extra, names[i]>> ELSE <<names[i]>>]]

Sections(stmt_set, max_len, names, extra) ==
    {NoSection} \cup {Section(Labelled(stmts, names, extra)) : stmts \in SeqsUpTo(stmt_set, max_len)}

InitLab ==
    /\ build \in Builds
    /\ InitMachine(NewMachine)
    /\ hist = <<>>
    /\ calls = <<>>
    /\ \E code \in Sections(CodeStmts, MaxCodeStmts, CodeLabels, "main"),
          static \in Sections(StaticStmts, MaxStaticStmts, StaticLabels, "data") :
          enc = << [prog |-> [code_section |-> code, static_section |-> static],
                    stage |-> "program"] >>

\* LabelOffsets::new of the program
NewLabelOffsets ==
    /\ Len(enc) = 1
    /\ enc[1].stage = "program"
    /\ \E offsets \in {label_offsets_new(enc[1].prog, Debug)} :
          enc' = << [offsets |-> offsets, prog |-> enc[1].prog, stage |-> "offsets"] >>
    /\ UNCHANGED <<build, machine_vars, hist, calls>>

NextLab == NewLabelOffsets

SpecLab == InitLab /\ [][NextLab]_vars

HasOffsets == Len(enc) = 1 /\ enc[1].stage = "offsets"

\* the statements s1..sn in code-section-then-static-section order
AllStmts == enc[1].prog.code_section.stmts \o enc[1].prog.static_section.stmts

\* the size of a statement in bytes
SizeOf(stmt) ==
    CASE stmt.kind \in {"Instr", "B8"}    -> 8
      [] stmt.kind = "B4"                 -> 4
      [] stmt.kind = "B2"                 -> 2
      [] stmt.kind = "B1"                 -> 1
      [] stmt.kind \in {"Zero", "Uninit"} -> stmt.nbytes
      [] stmt.kind = "Bytes"              -> Len(stmt.bytes)

RECURSIVE SumSizes(_, _)
SumSizes(stmts, n) == IF n = 0 THEN 0 ELSE SizeOf(stmts[n]) + SumSizes(stmts, n - 1)

\* C17: in the label-offset map, for the statements s1..sn of a program in
\* code-section-then-static-section order, every label attached to si maps
\* to the sum of the sizes of s1..s(i-1).
C17_LabelOffsets ==
    HasOffsets =>
        /\ enc[1].offsets.ok
        /\ \A i \in 1..Len(AllStmts) : \A j \in 1..Len(AllStmts[i].labels) :
              /\ AllStmts[i].labels[j] \in DOMAIN enc[1].offsets.v
              /\ enc[1].offsets.v[AllStmts[i].labels[j]] = U64(SumSizes(AllStmts, i - 1))

\* two instructions, then .b2 and .bytes: the label of .bytes maps to 18
C17_Witness ==
    /\ HasOffsets
    /\ Len(enc[1].prog.code_section.stmts) = 2
    /\ \A i \in 1..2 : enc[1].prog.code_section.stmts[i].kind = "Instr"
    /\ Len(enc[1].prog.static_section.stmts) = 2
    /\ enc[1].prog.static_section.stmts[1].kind = "B2"
    /\ enc[1].prog.static_section.stmts[2].kind = "Bytes"
    /\ enc[1].offsets.ok
    /\ enc[1].offsets.v["s2"] = U64(18)
    /\ enc[1].offsets.v["data"] = U64(16)

\* ------------------------------------------------------------------------
\* Memory-mapped input: loads at STDIN_ADDR
\* ------------------------------------------------------------------------

MaxReads == 3

\* input streams: empty, one byte, a byte above 0x7F ending a line, two lines
Inputs == {<<>>, <<97>>, <<200, NEWLINE>>, <<97, NEWLINE, 98>>}

\* the immediate 0xFFFF_0004, and $1 holding it
StdinLocs == {LocReg(1, NoOffset), LocImm(ZeroExtend(STDIN_ADDR, 16))}

\* the register that the k-th load of a run writes
ReadDest(k) == Dest(10 + k)

InitIn ==
    /\ build \in Builds
    /\ \E input \in Inputs :
          /\ InitMachine([NewMachine EXCEPT !.memory = DataMemory,
                                            !.registers[1] = STDIN_ADDR,
                                            !.stdin = input])
          /\ enc = << [input |-> input, stage |-> "run"] >>
    /\ hist = <<>>
    /\ calls = <<>>

StdinLoad(kind, loc) == Run(MaxReads, kind, <<ReadDest(Ops + 1), loc>>)

NextIn == \E kind \in DOMAIN LoadWidth, loc \in StdinLocs : StdinLoad(kind, loc)

SpecIn == InitIn /\ [][NextIn]_vars

\* the last operation was a load whose effective address is STDIN_ADDR
LoadedStdin ==
    IF hist = <<>> THEN FALSE
    ELSE /\ hist[1].instr.kind \in DOMAIN LoadWidth
         /\ Effective(hist[1].pre, hist[1].instr.args[2]) = STDIN_ADDR

\* the byte that the input delivers to a read on machine m, 0 at end of file
Delivered(m) == IF read_byte(m)[2].ok THEN read_byte(m)[2].v ELSE 0

\* C18: a load of any width whose effective address is 0xFFFF_0004 does not
\* access memory and sets dest to the byte delivered by the input
\* zero-extended to 64 bits (also when the byte is 0x80 or more), or to 0 at
\* end of file.
C18_StdinLoad ==
    LoadedStdin =>
        /\ hist[1].res = Done
        /\ memory = hist[1].pre.memory
        /\ registers[hist[1].instr.args[1].reg] = U64(Delivered(hist[1].pre))

\* the same for every load but load1
C18_ExceptLoad1 ==
    (LoadedStdin /\ hist[1].instr.kind # "Load1") =>
        /\ hist[1].res = Done
        /\ memory = hist[1].pre.memory
        /\ registers[hist[1].instr.args[1].reg] = U64(Delivered(hist[1].pre))

\* C19: successive stdin reads deliver the bytes of the input in order, each
\* exactly once: the k-th read of a run yields the k-th input byte when
\* k <= n, and every read after the n-th yields end of file, which the load
\* turns into the byte 0.
C19_InOrder ==
    \A k \in 1..Ops :
        registers[ReadDest(k).reg][1] =
            IF k <= Len(enc[1].input) THEN enc[1].input[k] ELSE 0

\* the reads of a run on the empty input all yield end of file
C19_EmptyInput ==
    enc[1].input = <<>> => \A k \in 1..Ops : registers[ReadDest(k).reg] = U64(0)

\* ------------------------------------------------------------------------
\* Memory-mapped output: stores at STDOUT_ADDR
\* ------------------------------------------------------------------------

MaxWrites == 2

\* 'A'; U+1F600; the surrogate 0xD800; 0x110000; 'A' below a set high half
OutValues == {U64(65), <<0, 246, 1, 0, 0, 0, 0, 0>>, <<0, 216, 0, 0, 0, 0, 0, 0>>,
              <<0, 0, 17, 0, 0, 0, 0, 0>>, <<65, 0, 0, 0, 1, 0, 0, 0>>}

\* the immediate 0xFFFF_000C, and $2 holding it
StdoutLocs == {LocReg(2, NoOffset), LocImm(ZeroExtend(STDOUT_ADDR, 16))}
OutSources == {SrcReg(0), SrcImm(I128(MkInt(TRUE, <<1>>)))}

InitOut ==
    /\ build \in Builds
    /\ \E v \in OutValues :
          InitMachine([NewMachine EXCEPT !.memory = DataMemory,
                                         !.registers[0] = v,
                                         !.registers[2] = STDOUT_ADDR])
    /\ hist = <<>>
    /\ calls = <<>>
    /\ enc = <<>>

StdoutStore(kind, loc, source) == Run(MaxWrites, kind, <<loc, source>>)

NextOut ==
    \E kind \in DOMAIN StoreWidth, loc \in StdoutLocs, source \in OutSources :
        StdoutStore(kind, loc, source)

SpecOut == InitOut /\ [][NextOut]_vars

\* the last operation was a store whose effective address is STDOUT_ADDR
StoredStdout ==
    IF hist = <<>> THEN FALSE
    ELSE /\ hist[1].instr.kind \in DOMAIN StoreWidth
         /\ Effective(hist[1].pre, hist[1].instr.args[1]) = STDOUT_ADDR

\* the low 4 bytes of the value that the last store writes
Low4 ==
    Trunc(Trunc(source_value(hist[1].pre, hist[1].instr.args[2]),
                StoreWidth[hist[1].instr.kind]), 4)

\* a Unicode scalar value: at most 0x10FFFF and not in 0xD800..0xDFFF
ScalarValue(w) ==
    /\ w[4] = 0
    /\ w[1] + 256 * w[2] + 65536 * w[3] <= 1114111
    /\ ~(55296 <= w[1] + 256 * w[2] + 65536 * w[3] /\ w[1] + 256 * w[2] + 65536 * w[3] <= 57343)

\* C20: a store of any width whose effective address is 0xFFFF_000C leaves
\* memory unchanged, returns no OutOfBounds error although the address is
\* beyond the capacity, and emits exactly one character: the Unicode scalar
\* given by the low 4 bytes of the written value, or U+FFFD when they are
\* not a valid scalar value.
C20_StdoutStore ==
    StoredStdout =>
        /\ ~NatLess(STDOUT_ADDR, Capacity)
        /\ hist[1].res = Done
        /\ memory = hist[1].pre.memory
        /\ stdout = Append(hist[1].pre.stdout,
                           IF ScalarValue(Low4) THEN Low4 ELSE <<253, 255, 0, 0>>)

\* store4 of the surrogate 0xD800: U+FFFD is emitted
C20_Witness ==
    /\ StoredStdout
    /\ hist[1].instr.kind = "Store4"
    /\ hist[1].instr.args[2] = SrcReg(0)
    /\ hist[1].pre.registers[0] = <<0, 216, 0, 0, 0, 0, 0, 0>>
    /\ hist[1].pre.stdout = <<>>
    /\ stdout = << <<253, 255, 0, 0>> >>

\* store8 of 0x0000_0001_0000_0041: the low 4 bytes give 'A'
C20_WitnessLow4 ==
    /\ StoredStdout
    /\ hist[1].instr.kind = "Store8"
    /\ hist[1].instr.args[2] = SrcReg(0)
    /\ hist[1].pre.registers[0] = <<65, 0, 0, 0, 1, 0, 0, 0>>
    /\ hist[1].pre.stdout = <<>>
    /\ stdout = << <<65, 0, 0, 0>> >>

\* ------------------------------------------------------------------------
\* asm/src/validate.rs: validating static data directives
\* ------------------------------------------------------------------------

\* validate_static_bytes of `.b<size> value`: an error unless
\* 0 <= value <= uN::MAX; the data is `value as uN` in little-endian order
validate_static_bytes(size, value) ==
    LET max == MkInt(FALSE, NatSub(Pow2(8 * size), <<1>>))
        data == Trunc(I128(value), size)
    IN IF value.neg \/ ~IntLeq(value, max)
       THEN Diagnosed("value must be in the range", data)
       ELSE Built(data)

StaticSizes == {1, 2, 4, 8}

\* the bounds of every width and their neighbours, 0 and -1
StaticValues ==
    {MkInt(FALSE, <<0>>), MkInt(TRUE, <<1>>), MkInt(FALSE, <<1, 2, 3, 4, 5, 6, 7, 8>>)}
    \cup UNION {{MkInt(TRUE, NatAdd(Pow2(8 * n - 1), <<1>>)),
                 MkInt(TRUE, Pow2(8 * n - 1)),
                 MkInt(FALSE, NatSub(Pow2(8 * n), <<1>>)),
                 MkInt(FALSE, Pow2(8 * n))} : n \in StaticSizes}

InitBytes ==
    /\ build \in Builds
    /\ InitMachine(NewMachine)
    /\ hist = <<>>
    /\ calls = <<>>
    /\ \E size \in StaticSizes, value \in StaticValues :
          enc = << [size |-> size, stage |-> "directive", value |-> value] >>

\* validate_static_bytes of the directive
ValidateStaticBytes ==
    /\ Len(enc) = 1
    /\ enc[1].stage = "directive"
    /\ \E out \in {validate_static_bytes(enc[1].size, enc[1].value)} :
          enc' = << [out |-> out, size |-> enc[1].size, stage |-> "static bytes",
                     value |-> enc[1].value] >>
    /\ UNCHANGED <<build, machine_vars, hist, calls>>

NextBytes == ValidateStaticBytes

SpecBytes == InitBytes /\ [][NextBytes]_vars

ValidatedBytes == Len(enc) = 1 /\ enc[1].stage = "static bytes"

\* C21: for a .bN directive with value v, validation emits no diagnostic iff
\* -2^(8N-1) <= v <= 2^(8N) - 1, and the emitted data is the low N bytes of v
\* in little-endian order.
C21_StaticBytes ==
    ValidatedBytes =>
        /\ enc[1].out.d = <<>> <=>
              (/\ IntLeq(MkInt(TRUE, Pow2(8 * enc[1].size - 1)), enc[1].value)
               /\ IntLeq(enc[1].value, MkInt(FALSE, NatSub(Pow2(8 * enc[1].size), <<1>>))))
        /\ enc[1].out.v = Pattern(enc[1].value, enc[1].size)

\* the same with the range 0 <= v <= 2^(8N) - 1
C21_UnsignedRange ==
    ValidatedBytes =>
        /\ enc[1].out.d = <<>> <=>
              (/\ ~enc[1].value.neg
               /\ IntLeq(enc[1].value, MkInt(FALSE, NatSub(Pow2(8 * enc[1].size), <<1>>))))
        /\ enc[1].out.v = Pattern(enc[1].value, enc[1].size)

\* ------------------------------------------------------------------------
\* asm/src/ast.rs, asm/src/const_table.rs, asm/src/validate.rs: programs as
\* parsed, the table of constants and the sections of a program
\* ------------------------------------------------------------------------

\* Span {start, end} (parser/scanner.rs); spans are compared field by field
\* by the derived PartialEq of the types that hold them
Span(start, end) == [end |-> end, start |-> start]

\* ast::Stmt: a label, a section header, a .const directive, a static data
\* directive or an instruction.  value is the ast::Integer of a .const
\* (its i128 and the span of the literal); kind is the section of a header or
\* the statement kind of a directive or an instruction
AstStmt(t, name, kind, value) == [kind |-> kind, name |-> name, t |-> t, value |-> value]
AstLabel(name) == AstStmt("Label", name, "", 0)
AstSection(kind) == AstStmt("Section", "", kind, 0)
AstConst(name, value) == AstStmt("Const", name, "", value)
\* a static data directive carries the nbytes of .zero and .uninit and the
\* literal of .bytes
AstStaticData(kind, nbytes, bytes) ==
    AstStmt("StaticData", "", kind, [bytes |-> bytes, nbytes |-> nbytes])
AstInstr == AstStmt("Instr", "", "Instr", 0)

\* the statements as the parser places them in the source text: statement i
\* spans bytes 10i..10i+9, the literal of a .const its last byte
Parsed(stmts) ==
    [i \in 1..Len(stmts) |->
        [kind |-> stmts[i].kind,
         name |-> stmts[i].name,
         span |-> Span(10 * i, 10 * i + 9),
         t |-> stmts[i].t,
         value |-> IF stmts[i].t = "Const"
                   THEN [span |-> Span(10 * i + 8, 10 * i + 9), value |-> stmts[i].value]
                   ELSE stmts[i].value]]

\* a diagnostic: its level and message and the span it points at
Diagnostic(level, message, span) == [level |-> level, message |-> message, span |-> span]

\* unique_labels: the set of all label names of the program
RECURSIVE unique_labels(_, _, _)
unique_labels(stmts, labels, d) ==
    IF stmts = <<>> THEN [d |-> d, v |-> labels]
    ELSE LET stmt == Head(stmts)
         IN IF stmt.t # "Label" THEN unique_labels(Tail(stmts), labels, d)
            ELSE IF stmt.name \in labels
            THEN unique_labels(Tail(stmts), labels,
                               Append(d, Diagnostic("error", "duplicate label name", stmt.span)))
            ELSE unique_labels(Tail(stmts), labels \cup {stmt.name}, d)

\* prev_const.value != const_stmt.value: the derived PartialEq of
\* ast::Integer compares the value and the span
integer_ne(a, b) == a.value # b.value \/ a.span # b.span

\* integer_ne comparing the values only
integer_ne_values(a, b) == a.value # b.value

\* the loop of ConstTable::new over the statements
RECURSIVE const_table_from(_, _, _, _)
const_table_from(stmts, const_values, d, labels) ==
    IF stmts = <<>> THEN [d |-> d, v |-> const_values]
    ELSE LET stmt == Head(stmts)
             conflict == IF stmt.name \in labels
                         THEN <<Diagnostic("error", "constant name conflicts with a label name",
                                           stmt.span)>>
                         ELSE <<>>
             redefined == IF stmt.name \in DOMAIN const_values
                          THEN (IF integer_ne(const_values[stmt.name].value, stmt.value)
                                THEN <<Diagnostic("warning", "constant was redefined", stmt.span)>>
                                ELSE <<>>)
                          ELSE <<>>
             replaced == [name \in DOMAIN const_values \cup {stmt.name} |->
                             IF name = stmt.name THEN stmt ELSE const_values[name]]
         IN IF stmt.t # "Const" THEN const_table_from(Tail(stmts), const_values, d, labels)
            ELSE const_table_from(Tail(stmts), replaced, d \o conflict \o redefined, labels)

\* ConstTable::new
const_table_new(prog, labels) == const_table_from(prog, <<>>, <<>>, labels)

MaxAstStmts == 3

ConstStmts == {AstConst("a", 1), AstConst("a", 2), AstConst("b", 1),
               AstLabel("a"), AstLabel("c"), AstInstr}

InitConst ==
    /\ build \in Builds
    /\ InitMachine(NewMachine)
    /\ hist = <<>>
    /\ calls = <<>>
    /\ \E stmts \in SeqsUpTo(ConstStmts, MaxAstStmts) :
          enc = << [prog |-> Parsed(stmts), stage |-> "parsed"] >>

\* the first steps of validate_program: unique_labels, then ConstTable::new
NewConstTable ==
    /\ Len(enc) = 1
    /\ enc[1].stage = "parsed"
    /\ \E labels \in {unique_labels(enc[1].prog, {}, <<>>)} :
       \E consts \in {const_table_new(enc[1].prog, labels.v)} :
          enc' = << [consts |-> consts, labels |-> labels, prog |-> enc[1].prog,
                     stage |-> "constants"] >>
    /\ UNCHANGED <<build, machine_vars, hist, calls>>

NextConst == NewConstTable

SpecConst == InitConst /\ [][NextConst]_vars

HasConstTable == Len(enc) = 1 /\ enc[1].stage = "constants"

\* the diagnostics of the constant table that point at statement j
DiagsAt(j) ==
    {enc[1].consts.d[i] : i \in {i \in 1..Len(enc[1].consts.d) :
                                    enc[1].consts.d[i].span = enc[1].prog[j].span}}

\* the latest definition before statement j of the constant that j defines
Earlier(j) ==
    {i \in 1..(j - 1) :
        /\ enc[1].prog[i].t = "Const"
        /\ enc[1].prog[i].name = enc[1].prog[j].name
        /\ \A k \in (i + 1)..(j - 1) :
              ~(enc[1].prog[k].t = "Const" /\ enc[1].prog[k].name = enc[1].prog[j].name)}

LabelNames == {enc[1].prog[i].name : i \in {i \in 1..Len(enc[1].prog) : enc[1].prog[i].t = "Label"}}

\* a .const whose name equals a label name gets an error
ConflictsReported(j) ==
    (enc[1].prog[j].name \in LabelNames) <=>
        (\E dg \in DiagsAt(j) : dg.level = "error")

\* a later definition with a different value gets a warning and no error of
\* its own
RedefinitionsWarned(j) ==
    \A i \in Earlier(j) :
        enc[1].prog[i].value.value # enc[1].prog[j].value.value =>
            /\ \E dg \in DiagsAt(j) : dg.level = "warning"
            /\ \A dg \in DiagsAt(j) :
                  dg.level = "error" => dg.message = "constant name conflicts with a label name"

\* C23: when a constant name is defined by more than one .const directive,
\* building the constant table emits no diagnostic if the later definition
\* has the same value as the earlier one and a warning (not an error) if the
\* values differ; a .const whose name equals any label name gets an error.
C23_Constants ==
    HasConstTable =>
        \A j \in 1..Len(enc[1].prog) :
            enc[1].prog[j].t = "Const" =>
                /\ ConflictsReported(j)
                /\ RedefinitionsWarned(j)
                /\ \A i \in Earlier(j) :
                      (/\ enc[1].prog[i].value.value = enc[1].prog[j].value.value
                       /\ enc[1].prog[j].name \notin LabelNames) => DiagsAt(j) = {}

\* the same without the case of a repeated value
C23_DifferentValues ==
    HasConstTable =>
        \A j \in 1..Len(enc[1].prog) :
            enc[1].prog[j].t = "Const" => ConflictsReported(j) /\ RedefinitionsWarned(j)

\* the state of the loop of validate_program: the two sections, the section
\* that statements are pushed to ("" for None), the labels not yet attached
\* to a statement, and the diagnostics emitted
ValidateStart ==
    [code_section |-> NoSection, d |-> <<>>, labels |-> <<>>, static_section |-> NoSection,
     stmts |-> ""]

\* ast::Stmt::Section with the order of the sections left unchecked
section_header_any_order(st, stmt) ==
    IF stmt.kind = "code"
    THEN LET dup == IF st.code_section.section
                    THEN <<Diagnostic("error", "duplicate .code section", stmt.span)>>
                    ELSE <<>>
         IN [st EXCEPT !.d = st.d \o dup,
                       !.code_section = IF st.code_section.section THEN st.code_section
                                        ELSE Section(<<>>),
                       !.stmts = "code"]
    ELSE LET dup == IF st.static_section.section
                    THEN <<Diagnostic("error", "duplicate .static section", stmt.span)>>
                    ELSE <<>>
         IN [st EXCEPT !.d = st.d \o dup,
                       !.static_section = IF st.static_section.section THEN st.static_section
                                          ELSE Section(<<>>),
                       !.stmts = "static"]

\* ast::Stmt::Section in the loop of validate_program (the messages are
\* written without their backquotes)
section_header(st, stmt) ==
    IF stmt.kind = "code"
    THEN LET order == IF st.static_section.section
                      THEN <<Diagnostic("error",
                                        "the .code section must occur before the .static section",
                                        stmt.span)>>
                      ELSE <<>>
             dup == IF st.code_section.section
                    THEN <<Diagnostic("error", "duplicate .code section", stmt.span)>>
                    ELSE <<>>
         IN [st EXCEPT !.d = st.d \o order \o dup,
                       !.code_section = IF st.code_section.section THEN st.code_section
                                        ELSE Section(<<>>),
                       !.stmts = "code"]
    ELSE LET dup == IF st.static_section.section
                    THEN <<Diagnostic("error", "duplicate .static section", stmt.span)>>
                    ELSE <<>>
         IN [st EXCEPT !.d = st.d \o dup,
                       !.static_section = IF st.static_section.section THEN st.static_section
                                          ELSE Section(<<>>),
                       !.stmts = "static"]

\* the end of the loop body for a static data directive or an instruction:
\* the statement takes the pending labels and is pushed to the current
\* section, or is reported when there is none
push_stmt(st, stmt) ==
    LET asm_stmt == IF stmt.t = "Instr" THEN AsmStmt("Instr", st.labels, 0, <<>>)
                    ELSE AsmStmt(stmt.kind, st.labels, stmt.value.nbytes, stmt.value.bytes)
    IN CASE st.stmts = "code" ->
              [st EXCEPT !.code_section.stmts = Append(st.code_section.stmts, asm_stmt),
                         !.labels = <<>>]
         [] st.stmts = "static" ->
              [st EXCEPT !.static_section.stmts = Append(st.static_section.stmts, asm_stmt),
                         !.labels = <<>>]
         [] OTHER ->
              [st EXCEPT !.d = Append(st.d,
                  Diagnostic("error", "all assembly statements must occur within a section, e.g. section .code",
                             stmt.span))]

\* the loop of validate_program
RECURSIVE validate_from(_, _)
validate_from(stmts, st) ==
    IF stmts = <<>> THEN st
    ELSE LET stmt == Head(stmts)
         IN CASE stmt.t = "Label" ->
                   validate_from(Tail(stmts), [st EXCEPT !.labels = Append(st.labels, stmt.name)])
              [] stmt.t = "Section" -> validate_from(Tail(stmts), section_header(st, stmt))
              [] stmt.t = "Const" -> validate_from(Tail(stmts), st)
              [] OTHER -> validate_from(Tail(stmts), push_stmt(st, stmt))

\* validate_program: the asm::Program and every diagnostic emitted
validate_program(prog) ==
    LET labels == unique_labels(prog, {}, <<>>)
        consts == const_table_new(prog, labels.v)
        st == validate_from(prog, ValidateStart)
    IN [d |-> labels.d \o consts.d \o st.d,
        v |-> [code_section |-> st.code_section, static_section |-> st.static_section]]

MaxProgStmts == 4

ProgStmts == {AstSection("code"), AstSection("static"), AstLabel("a"), AstLabel("b"),
              AstInstr, AstStaticData("B2", 0, <<>>)}

InitProg ==
    /\ build \in Builds
    /\ InitMachine(NewMachine)
    /\ hist = <<>>
    /\ calls = <<>>
    /\ \E stmts \in SeqsUpTo(ProgStmts, MaxProgStmts) :
          enc = << [prog |-> Parsed(stmts), stage |-> "source"] >>

\* validate_program, then LabelOffsets::new of the program it returns
ValidateProgram ==
    /\ Len(enc) = 1
    /\ enc[1].stage = "source"
    /\ \E out \in {validate_program(enc[1].prog)} :
       \E offsets \in {label_offsets_new(out.v, Debug)} :
          enc' = << [offsets |-> offsets, out |-> out, prog |-> enc[1].prog,
                     stage |-> "validated"] >>
    /\ UNCHANGED <<build, machine_vars, hist, calls>>

NextProg == ValidateProgram

SpecProg == InitProg /\ [][NextProg]_vars

Validated == Len(enc) = 1 /\ enc[1].stage = "validated"

\* the headers of the given section before statement j
HeadersBefore(j, kind) ==
    {i \in 1..(j - 1) : enc[1].prog[i].t = "Section" /\ enc[1].prog[i].kind = kind}

\* the section whose header most recently precedes statement j, "" if none
SectionOf(j) ==
    LET hs == HeadersBefore(j, "code") \cup HeadersBefore(j, "static")
    IN IF hs = {} THEN "" ELSE enc[1].prog[CHOOSE i \in hs : \A k \in hs : k <= i].kind

IsBody(stmt) == stmt.t \in {"Instr", "StaticData"}

\* the section errors that the program calls for, as <<message, span>>
ExpectedSectionErrors ==
    {<<"duplicate .code section", enc[1].prog[j].span>> :
        j \in {j \in 1..Len(enc[1].prog) :
                  /\ enc[1].prog[j].t = "Section" /\ enc[1].prog[j].kind = "code"
                  /\ HeadersBefore(j, "code") # {}}}
    \cup {<<"duplicate .static section", enc[1].prog[j].span>> :
        j \in {j \in 1..Len(enc[1].prog) :
                  /\ enc[1].prog[j].t = "Section" /\ enc[1].prog[j].kind = "static"
                  /\ HeadersBefore(j, "static") # {}}}
    \cup {<<"the .code section must occur before the .static section", enc[1].prog[j].span>> :
        j \in {j \in 1..Len(enc[1].prog) :
                  /\ enc[1].prog[j].t = "Section" /\ enc[1].prog[j].kind = "code"
                  /\ HeadersBefore(j, "static") # {}}}
    \cup {<<"all assembly statements must occur within a section, e.g. section .code", enc[1].prog[j].span>> :
        j \in {j \in 1..Len(enc[1].prog) : IsBody(enc[1].prog[j]) /\ SectionOf(j) = ""}}

SectionMessages ==
    {"duplicate .code section", "duplicate .static section",
     "the .code section must occur before the .static section",
     "all assembly statements must occur within a section, e.g. section .code"}

\* the section errors emitted, in order
SectionErrors ==
    SelectSeq(enc[1].out.d, LAMBDA dg : dg.level = "error" /\ dg.message \in SectionMessages)

\* the kinds of the statements of the source that stand in the given section
RECURSIVE KindsIn(_, _)
KindsIn(kind, j) ==
    IF j = 0 THEN <<>>
    ELSE KindsIn(kind, j - 1)
         \o (IF IsBody(enc[1].prog[j]) /\ SectionOf(j) = kind THEN <<enc[1].prog[j].kind>> ELSE <<>>)

Placed(section, kind) ==
    /\ section.section <=> HeadersBefore(Len(enc[1].prog) + 1, kind) # {}
    /\ [i \in 1..Len(section.stmts) |-> section.stmts[i].kind] = KindsIn(kind, Len(enc[1].prog))

\* C22: validate_program emits an error for each second `section .code`
\* header, each second `section .static` header, each `section .code` header
\* after a `section .static` header and each instruction or static data
\* statement before any section header; a program with none of these gets
\* no section error, and each of its statements is placed, in source order,
\* into the section whose header most recently preceded it.
C22_Sections ==
    Validated =>
        /\ {<<SectionErrors[i].message, SectionErrors[i].span>> : i \in 1..Len(SectionErrors)}
              = ExpectedSectionErrors
        /\ Len(SectionErrors) = Cardinality(ExpectedSectionErrors)
        /\ ExpectedSectionErrors = {} =>
              /\ Placed(enc[1].out.v.code_section, "code")
              /\ Placed(enc[1].out.v.static_section, "static")

\* section .code; nop; section .static; .b2: one statement in each section
C22_Witness ==
    /\ Validated
    /\ Len(enc[1].prog) = 4
    /\ [i \in 1..4 |-> enc[1].prog[i].kind] = <<"code", "Instr", "static", "B2">>
    /\ enc[1].out.d = <<>>
    /\ enc[1].out.v.code_section = Section(<<AsmStmt("Instr", <<>>, 0, <<>>)>>)
    /\ enc[1].out.v.static_section = Section(<<AsmStmt("B2", <<>>, 0, <<>>)>>)

\* section .static; section .code; section .code: the last header gets the
\* order error and the duplicate error
C22_WitnessErrors ==
    /\ Validated
    /\ Len(enc[1].prog) = 3
    /\ [i \in 1..3 |-> enc[1].prog[i].kind] = <<"static", "code", "code">>
    /\ Len(SectionErrors) = 3

\* C30: every label declared inside a section of a program that validates
\* without errors has an entry in the label-offset map, a label that follows
\* the last statement of the program included.
C30_LabelsKnown ==
    (Validated /\ \A i \in 1..Len(enc[1].out.d) : enc[1].out.d[i].level # "error") =>
        /\ enc[1].offsets.ok
        /\ \A j \in 1..Len(enc[1].prog) :
              (enc[1].prog[j].t = "Label" /\ SectionOf(j) # "") =>
                  /\ enc[1].prog[j].name \in DOMAIN enc[1].offsets.v
                  /\ lookup(enc[1].offsets.v, enc[1].prog[j].name).d = <<>>

\* the same for the labels that some statement follows
C30_LabelsBeforeStatements ==
    (Validated /\ \A i \in 1..Len(enc[1].out.d) : enc[1].out.d[i].level # "error") =>
        /\ enc[1].offsets.ok
        /\ \A j \in 1..Len(enc[1].prog) :
              (/\ enc[1].prog[j].t = "Label"
               /\ \E k \in (j + 1)..Len(enc[1].prog) : IsBody(enc[1].prog[k])) =>
                  /\ enc[1].prog[j].name \in DOMAIN enc[1].offsets.v
                  /\ lookup(enc[1].offsets.v, enc[1].prog[j].name).d = <<>>

\* ------------------------------------------------------------------------
\* Failing steps: Machine::step on instructions that fail, with operands at
\* the edges of the address space
\* ------------------------------------------------------------------------

\* the 16-bit offset fields used: -8 and 8
OffsetOf(neg, n) == Pattern(MkInt(neg, <<n>>), 2)

\* one instruction each: stack writes, a handler without a body, locations
\* of a register plus an offset, memory accesses and a division
FailStmts ==
    << Stmt("Push", 9, <<0>>),
       Stmt("Call", 9, <<1>>),
       Stmt("Call", 11, <<1, OffsetOf(TRUE, 8)>>),
       Stmt("Js", 9, <<1>>),
       Stmt("Jmp", 11, <<1, OffsetOf(TRUE, 8)>>),
       Stmt("Jmp", 11, <<1, OffsetOf(FALSE, 8)>>),
       Stmt("Load8", 1, <<2, 1>>),
       Stmt("Load8", 4, <<2, 1, OffsetOf(TRUE, 8)>>),
       Stmt("Store2", 1, <<1, 0>>),
       Stmt("Store8", 4, <<1, 0, OffsetOf(TRUE, 8)>>),
       Stmt("Divru", 7, <<2, 0, 3>>) >>

\* the words of the instructions and a word whose opcode is no instruction
FailWords == {code_section(<<FailStmts[i]>>) : i \in 1..Len(FailStmts)} \cup {Ones(8)}

\* $1: an address in bounds, the last byte of memory, the top of the address
\* space and an address below 8
FailAddrs == {U64(16), U64(MemSize - 1), U64_MAX, U64(4)}

\* the stack pointer: the capacity, and two values below 8
FailStackPointers == {Capacity, U64(4), U64(0)}

\* the program counter: the instruction, or the end of memory
FailCounters == {U64(0), Capacity}

InitFail ==
    /\ build \in Builds
    /\ \E bytes \in FailWords, a \in FailAddrs, sp \in FailStackPointers, pc \in FailCounters :
          InitMachine([NewMachine EXCEPT !.memory = write_into(bytes, DataMemory, 0),
                                         !.program_counter = pc,
                                         !.registers[0] = <<1, 2, 3, 4, 5, 6, 7, 8>>,
                                         !.registers[1] = a,
                                         !.registers[SP] = sp])
    /\ hist = <<>>
    /\ calls = <<>>
    /\ enc = <<>>

NextFail == Step

SpecFail == InitFail /\ [][NextFail]_vars

\* the last step failed with one of the errors of ExecuteError/DecodeError
FailedTyped == hist # <<>> /\ ~hist[1].res.ok /\ hist[1].res.err # Panic

\* the last step executed an instruction of the given kind
Tried(kind) == hist # <<>> /\ hist[1].instr.kind = kind

\* C24: every step either completes the instruction or returns a typed
\* error; no instruction kind and no operand or register value (SP below 8
\* on push or call, an address whose end exceeds 2^64, a register plus an
\* offset) makes the VM abort in another way.
C24_TypedErrors == hist # <<>> => (hist[1].res.ok \/ hist[1].res.err # Panic)

\* in a release build only the handlers without a body abort
C24_ReleaseAborts ==
    (hist # <<>> /\ ~Debug /\ ~hist[1].res.ok /\ hist[1].res.err = Panic)
        => hist[1].instr.kind \in TodoKinds

\* the location of the last instruction, a register plus an offset
OffsetLoc == hist[1].instr.args[1]

\* C28: a location of a register plus an offset designates the address
\* (R[reg] + off) mod 2^64, off being the 16-bit offset as a signed value;
\* for every negative offset and every register value it is computed
\* without an arithmetic-overflow failure.
C28_OffsetAddress ==
    (Tried("Jmp") /\ OffsetLoc.offset # NoOffset) =>
        /\ hist[1].res.ok
        /\ program_counter
              = wrapping_add(hist[1].pre.registers[OffsetLoc.reg], SignExtend(OffsetLoc.offset, 8))

\* the same in a release build, and in a debug build when the sum of the
\* register and the sign-extended offset stays below 2^64
C28_OffsetAddressNoCarry ==
    (/\ Tried("Jmp") /\ OffsetLoc.offset # NoOffset
     /\ \/ ~Debug
        \/ checked_add(hist[1].pre.registers[OffsetLoc.reg], SignExtend(OffsetLoc.offset, 8)).ok) =>
        /\ hist[1].res.ok
        /\ program_counter
              = wrapping_add(hist[1].pre.registers[OffsetLoc.reg], SignExtend(OffsetLoc.offset, 8))

\* C29: a step that returns an error leaves the registers, SP included, the
\* flags, every memory byte and the program counter as they were before it.
C29_FailureUntouched ==
    FailedTyped =>
        /\ registers = hist[1].pre.registers
        /\ flags = hist[1].pre.flags
        /\ memory = hist[1].pre.memory
        /\ program_counter = hist[1].pre.program_counter

\* a step that fails in fetch or decode changes nothing, and no failing step
\* changes the flags or a byte of memory
C29_FetchDecodeUntouched ==
    FailedTyped =>
        /\ flags = hist[1].pre.flags
        /\ memory = hist[1].pre.memory
        /\ hist[1].instr.kind = "None" =>
              /\ registers = hist[1].pre.registers
              /\ program_counter = hist[1].pre.program_counter

\* ------------------------------------------------------------------------
\* The words of to_binary, bit by bit
\* ------------------------------------------------------------------------

\* base opcodes: nop, the one of tests::encoded_instr, and ret
BinOpcodes == {0, 32, 624}

\* the fields of tests::encoded_instr: Reg(61), Offset(-3392), Imm(0x3f3f7ac9)
VecReg == 61
VecOffset == Pattern(MkInt(TRUE, <<64, 13>>), 2)
VecImm == I128(MkInt(FALSE, <<201, 122, 63, 63>>))

\* field values: those of the test and others, each immediate -1 or a value
\* of at most as many bits as its field has
BinValues(ty) ==
    CASE ty = "Reg"    -> {0, VecReg}
      [] ty = "Offset" -> {VecOffset, OffsetOf(FALSE, 8)}
      [] OTHER         -> {v \in {VecImm, Zeros(16), Ones(16)} :
                              \/ v = Ones(16)
                              \/ NatLess(Trunc(v, 8), Pow2(ImmBits[ty]))}

\* every tuple of these values for layout l
BinLayoutValues(l) ==
    LET tys == LayoutFields[l]
    IN CASE Len(tys) = 1 -> {<<a>> : a \in BinValues(tys[1])}
         [] Len(tys) = 2 -> {<<a, b>> : a \in BinValues(tys[1]), b \in BinValues(tys[2])}
         [] Len(tys) = 3 -> {<<a, b, c>> : a \in BinValues(tys[1]), b \in BinValues(tys[2]),
                                           c \in BinValues(tys[3])}

InitBin ==
    /\ build \in Builds
    /\ InitMachine(NewMachine)
    /\ hist = <<>>
    /\ calls = <<>>
    /\ \E base \in BinOpcodes, l \in Layouts : \E f \in BinLayoutValues(l) :
          enc = << [base_opcode |-> base, layout |-> [f |-> f, l |-> l], stage |-> "layout"] >>

\* Layout::to_binary(base_opcode)
ToBinary ==
    /\ Len(enc) = 1
    /\ enc[1].stage = "layout"
    /\ \E word \in {to_binary(enc[1].layout, enc[1].base_opcode, Debug)} :
          enc' = << [base_opcode |-> enc[1].base_opcode, layout |-> enc[1].layout,
                     stage |-> "binary", word |-> word] >>
    /\ UNCHANGED <<build, machine_vars, hist, calls>>

NextBin == ToBinary

SpecBin == InitBin /\ [][NextBin]_vars

InBinary == Len(enc) = 1 /\ enc[1].stage = "binary"

\* the low n bits of a field value: bit i of the two's-complement pattern
FieldBit(ty, v, i) ==
    CASE ty = "Reg" -> (v \div (2 ^ i)) % 2
      [] OTHER      -> Bit(v, i)

\* bit p (0 = least significant) of the word the format prescribes: the
\* opcode in bits 63..52, field i of n bits at MSB offset k in bits
\* 63-k-n+1 .. 63-k, zero below the last field
FormatBit(lay, base_opcode, p) ==
    IF p >= REGISTERS - size_bits("Opcode")
    THEN ((base_opcode + opcode_offset(lay.l))
             \div (2 ^ (p - (REGISTERS - size_bits("Opcode"))))) % 2
    ELSE LET tys == LayoutFields[lay.l]
             at == {i \in 1..Len(tys) :
                       /\ REGISTERS - 1 - FieldOffset(lay.l, i) - size_bits(tys[i]) + 1 <= p
                       /\ p <= REGISTERS - 1 - FieldOffset(lay.l, i)}
         IN IF at = {} THEN 0
            ELSE LET i == CHOOSE i \in at : TRUE
                 IN FieldBit(tys[i], lay.f[i],
                             p - (REGISTERS - FieldOffset(lay.l, i) - size_bits(tys[i])))

\* the layout has an immediate field with a negative value
HasNegative(lay) ==
    \E i \in 1..Len(lay.f) :
        LayoutFields[lay.l][i] \notin {"Reg", "Offset"} /\ lay.f[i] = Ones(16)

\* C25: to_binary writes the 12-bit opcode base_opcode + layout offset into
\* bits 63..52 and each field of n bits at MSB offset k into the bits
\* 63-k-n+1 .. 63-k, the fields following each other without overlapping and
\* without touching the opcode bits, and every bit below the last field is
\* zero; L1 with two zero registers, the encoding of a nullary instruction,
\* is the word base_opcode * 2^52.
C25_BitLayout ==
    InBinary =>
        /\ enc[1].word.ok
        /\ \A p \in 0..(REGISTERS - 1) :
              Bit(enc[1].word.v, p) = FormatBit(enc[1].layout, enc[1].base_opcode, p)
        /\ (enc[1].layout.l = 1 /\ enc[1].layout.f = <<0, 0>>) =>
              enc[1].word.v = Shl(U64(enc[1].base_opcode), REGISTERS - size_bits("Opcode"))

\* the same for the layouts without a negative immediate
C25_BitLayoutNonNegative ==
    (InBinary /\ ~HasNegative(enc[1].layout)) =>
        /\ enc[1].word.ok
        /\ \A p \in 0..(REGISTERS - 1) :
              Bit(enc[1].word.v, p) = FormatBit(enc[1].layout, enc[1].base_opcode, p)
        /\ (enc[1].layout.l = 1 /\ enc[1].layout.f = <<0, 0>>) =>
              enc[1].word.v = Shl(U64(enc[1].base_opcode), REGISTERS - size_bits("Opcode"))

\* the vector of tests::encoded_instr has been encoded
VectorEncoded ==
    /\ InBinary
    /\ enc[1].base_opcode = 32
    /\ enc[1].layout.l = 5
    /\ enc[1].layout.f = <<VecReg, VecOffset, VecImm>>

\* C26: encoding layout L5 with the fields Reg(61), Offset(-3392),
\* Imm(0x3F3F7AC9) and base opcode 32 yields the word 0x0247F7B03F3F7AC9.
C26_Vector ==
    VectorEncoded => (enc[1].word.ok /\ enc[1].word.v = <<201, 122, 63, 63, 176, 247, 71, 2>>)

\* C26, amended: the encoding yields the word 0x024F7CB03F3F7AC9.
C26_VectorAmended ==
    VectorEncoded => (enc[1].word.ok /\ enc[1].word.v = <<201, 122, 63, 63, 176, 124, 79, 2>>)

C26_Witness == VectorEncoded /\ enc[1].word.ok

\* the `argument` section of an instruction, in bits
ARGUMENTS_SECTION_SIZE == 52

\* C27: for each of the layouts L1-L11 used_arguments_bits is at most 52, so
\* that after the opcode and all fields are written the MSB offset reached
\* by to_binary does not exceed 64.
C27_FitsArguments ==
    InBinary =>
        /\ used_arguments_bits(enc[1].layout.l) <= ARGUMENTS_SECTION_SIZE
        /\ size_bits("Opcode") + used_arguments_bits(enc[1].layout.l) <= REGISTERS
        /\ FieldOffset(enc[1].layout.l, Len(LayoutFields[enc[1].layout.l]) + 1)
              = size_bits("Opcode") + used_arguments_bits(enc[1].layout.l)

\* L8, whose fields fill the 52 bits, has been encoded
C27_Witness ==
    /\ InBinary
    /\ enc[1].layout.l = 8
    /\ used_arguments_bits(8) = ARGUMENTS_SECTION_SIZE
    /\ enc[1].word.ok

====
